---- MODULE Spec2Model ----
(***************************************************************************)
(* Merchant onboarding backend: the in-memory session store, the           *)
(* OnboardingController request handlers and the OnboardingAgent decision  *)
(* logic (step progression, document auto-fill, enrichment).               *)
(*                                                                         *)
(* JavaScript strings are modelled as sequences of one-character strings,  *)
(* so that the format checks (regular expressions) are computed and the    *)
(* empty string is the empty sequence.  A JavaScript object is a function  *)
(* whose DOMAIN is the set of its own keys.                                *)
(***************************************************************************)
EXTENDS Integers, Sequences, FiniteSets, TLC

VARIABLES
    sessions,   \* the module-level Map `sessions`: session id -> session object
    now,        \* wall clock read by `new Date()`, in units of TickSeconds
    last,       \* the last request served: its handler, its outcome, the
                \* session it addressed, the step that session was at and
                \* the part of req.body the handler spreads into the record
    pending     \* the sendMessage requests that are awaiting the agent, each
                \* with the agentContext it built before the await

vars == <<sessions, now, last, pending>>

----------------------------------------------------------------------------
(* JavaScript values *)

\* JSON null, as the extraction prompts ask for missing fields
Null == <<"<null>">>

\* the value of an absent property
Undefined == <<"<undefined>">>

\* JavaScript truthiness of a string / null / undefined value
Truthy(v) == v # <<>> /\ v # Null /\ v # Undefined

\* obj[key]
Get(obj, key) == IF key \in DOMAIN obj THEN obj[key] ELSE Undefined

\* { ...a, ...b }
Spread(a, b) ==
    [k \in (DOMAIN a) \cup (DOMAIN b) |-> IF k \in DOMAIN b THEN b[k] ELSE a[k]]

\* the empty object {}
EmptyObject == [k \in {} |-> <<>>]

Digits == {"0", "1", "2", "3", "4", "5", "6", "7", "8", "9"}

UpperLetters ==
    {"A", "B", "C", "D", "E", "F", "G", "H", "I", "J", "K", "L", "M",
     "N", "O", "P", "Q", "R", "S", "T", "U", "V", "W", "X", "Y", "Z"}

----------------------------------------------------------------------------
(* String values used by the requests, the documents and the registries *)

\* "ABC Traders": business name typed by the merchant
ABC_TRADERS == <<"A", "B", "C", " ", "T", "r", "a", "d", "e", "r", "s">>

\* "XYZ Stores": a second business name, for overwrites
XYZ_STORES == <<"X", "Y", "Z", " ", "S", "t", "o", "r", "e", "s">>

\* "Asha Rao": owner name typed by the merchant
ASHA_RAO == <<"A", "s", "h", "a", " ", "R", "a", "o">>

\* "Ravi Nair": the name printed on an identity document
RAVI_NAIR == <<"R", "a", "v", "i", " ", "N", "a", "i", "r">>

\* "ABCDE1234F": a PAN of the required shape
PAN_GOOD == <<"A", "B", "C", "D", "E", "1", "2", "3", "4", "F">>

\* "PQRSX6789K": a second well-formed PAN
PAN_OTHER == <<"P", "Q", "R", "S", "X", "6", "7", "8", "9", "K">>

\* "ABCDE12345": a PAN whose last character is a digit
PAN_BAD == <<"A", "B", "C", "D", "E", "1", "2", "3", "4", "5">>

\* "27AABCU9603R1ZM": the GSTIN of simulateOCR
GSTIN_GOOD ==
    <<"2", "7", "A", "A", "B", "C", "U", "9", "6", "0", "3", "R", "1", "Z",
      "M">>

\* "27AABCU9603": a truncated GSTIN
GSTIN_BAD == <<"2", "7", "A", "A", "B", "C", "U", "9", "6", "0", "3">>

\* "SBIN0001234": an IFSC of the required shape
IFSC_GOOD == <<"S", "B", "I", "N", "0", "0", "0", "1", "2", "3", "4">>

\* "SBIN1001234": an IFSC whose fifth character is not 0
IFSC_BAD == <<"S", "B", "I", "N", "1", "0", "0", "1", "2", "3", "4">>

\* "123456789012": a bank account number
ACCOUNT_NO == <<"1", "2", "3", "4", "5", "6", "7", "8", "9", "0", "1", "2">>

\* "asha@abc.in": an e-mail address
EMAIL == <<"a", "s", "h", "a", "@", "a", "b", "c", ".", "i", "n">>

\* "9876543210": a phone number
PHONE == <<"9", "8", "7", "6", "5", "4", "3", "2", "1", "0">>

\* "12 MG Road": a street address
ADDRESS == <<"1", "2", " ", "M", "G", " ", "R", "o", "a", "d">>

\* "123 Main Street": the address printed on a document
DOC_ADDRESS ==
    <<"1", "2", "3", " ", "M", "a", "i", "n", " ", "S", "t", "r", "e", "e",
      "t">>

\* "Mumbai"
MUMBAI == <<"M", "u", "m", "b", "a", "i">>

\* "Pune"
PUNE == <<"P", "u", "n", "e">>

\* "Maharashtra"
MAHARASHTRA == <<"M", "a", "h", "a", "r", "a", "s", "h", "t", "r", "a">>

\* "400001": a postal code of getMockLocationData
PINCODE_KNOWN == <<"4", "0", "0", "0", "0", "1">>

\* "999999": a postal code no registry knows
PINCODE_OTHER == <<"9", "9", "9", "9", "9", "9">>

\* "retail": a business category
RETAIL == <<"r", "e", "t", "a", "i", "l">>

\* "ABC Enterprises": the business name of simulateOCR
ABC_ENTERPRISES ==
    <<"A", "B", "C", " ", "E", "n", "t", "e", "r", "p", "r", "i", "s", "e",
      "s">>

\* "State Bank of India"
SBI ==
    <<"S", "t", "a", "t", "e", " ", "B", "a", "n", "k", " ", "o", "f", " ",
      "I", "n", "d", "i", "a">>

\* "Main Branch"
MAIN_BRANCH == <<"M", "a", "i", "n", " ", "B", "r", "a", "n", "c", "h">>

\* "savings"
SAVINGS == <<"s", "a", "v", "i", "n", "g", "s">>

\* "ABC Enterprises Private Limited": fetchGSTDetails
GST_BUSINESS_NAME ==
    <<"A", "B", "C", " ", "E", "n", "t", "e", "r", "p", "r", "i", "s", "e",
      "s", " ", "P", "r", "i", "v", "a", "t", "e", " ", "L", "i", "m", "i",
      "t", "e", "d">>

\* "123 Business Park, Andheri East": fetchGSTDetails
GST_ADDRESS ==
    <<"1", "2", "3", " ", "B", "u", "s", "i", "n", "e", "s", "s", " ", "P",
      "a", "r", "k", ",", " ", "A", "n", "d", "h", "e", "r", "i", " ", "E",
      "a", "s", "t">>

\* "2020-01-15": fetchGSTDetails
GST_REG_DATE == <<"2", "0", "2", "0", "-", "0", "1", "-", "1", "5">>

\* "Proprietorship": fetchGSTDetails
PROPRIETORSHIP ==
    <<"P", "r", "o", "p", "r", "i", "e", "t", "o", "r", "s", "h", "i", "p">>

\* "Active": fetchGSTDetails
ACTIVE == <<"A", "c", "t", "i", "v", "e">>

\* "John Doe": fetchPANDetails
JOHN_DOE == <<"J", "o", "h", "n", " ", "D", "o", "e">>

\* "Valid": fetchPANDetails
VALID == <<"V", "a", "l", "i", "d">>

\* "Individual": fetchPANDetails
INDIVIDUAL == <<"I", "n", "d", "i", "v", "i", "d", "u", "a", "l">>

\* "India"
INDIA == <<"I", "n", "d", "i", "a">>

\* "Unknown": getMockLocationData
UNKNOWN == <<"U", "n", "k", "n", "o", "w", "n">>

\* "Unknown Bank": getMockBankData
UNKNOWN_BANK == <<"U", "n", "k", "n", "o", "w", "n", " ", "B", "a", "n", "k">>

\* "Fort": a branch name returned by the IFSC registry
FORT_BRANCH == <<"F", "o", "r", "t">>

\* "400002000": a MICR code returned by the IFSC registry
MICR == <<"4", "0", "0", "0", "0", "2", "0", "0", "0">>

\* "Hello": a chat message
HELLO == <<"H", "e", "l", "l", "o">>

\* "Sure": a reply generated by the LLM
REPLY == <<"S", "u", "r", "e">>

\* "I can help speed this up!": the low-completion intervention reply (abridged)
OFFER_AUTOFILL ==
    <<"I", " ", "c", "a", "n", " ", "h", "e", "l", "p", " ", "s", "p", "e",
      "e", "d", " ", "t", "h", "i", "s", " ", "u", "p", "!">>

\* "I notice you might be stuck.": the high-risk intervention reply (abridged)
OFFER_HELP ==
    <<"I", " ", "n", "o", "t", "i", "c", "e", " ", "y", "o", "u", " ", "m",
      "i", "g", "h", "t", " ", "b", "e", " ", "s", "t", "u", "c", "k", ".">>

\* "Taking your time is fine!": the slow-step intervention reply (abridged)
OFFER_EXPLAIN ==
    <<"T", "a", "k", "i", "n", "g", " ", "y", "o", "u", "r", " ", "t", "i",
      "m", "e", " ", "i", "s", " ", "f", "i", "n", "e", "!">>

\* "New Delhi": getMockLocationData
NEW_DELHI == <<"N", "e", "w", " ", "D", "e", "l", "h", "i">>

\* "Central Delhi": getMockLocationData
CENTRAL_DELHI ==
    <<"C", "e", "n", "t", "r", "a", "l", " ", "D", "e", "l", "h", "i">>

\* "Delhi": getMockLocationData
DELHI == <<"D", "e", "l", "h", "i">>

\* "Bangalore": getMockLocationData
BANGALORE == <<"B", "a", "n", "g", "a", "l", "o", "r", "e">>

\* "Bangalore Urban": getMockLocationData
BANGALORE_URBAN ==
    <<"B", "a", "n", "g", "a", "l", "o", "r", "e", " ", "U", "r", "b", "a",
      "n">>

\* "Karnataka": getMockLocationData
KARNATAKA == <<"K", "a", "r", "n", "a", "t", "a", "k", "a">>

\* "110001": getMockLocationData
PINCODE_DELHI == <<"1", "1", "0", "0", "0", "1">>

\* "560001": getMockLocationData
PINCODE_BANGALORE == <<"5", "6", "0", "0", "0", "1">>

\* "HDFC Bank": getMockBankData
HDFC_BANK == <<"H", "D", "F", "C", " ", "B", "a", "n", "k">>

\* "ICICI Bank": getMockBankData
ICICI_BANK == <<"I", "C", "I", "C", "I", " ", "B", "a", "n", "k">>

\* "Axis Bank": getMockBankData
AXIS_BANK == <<"A", "x", "i", "s", " ", "B", "a", "n", "k">>

\* "Kotak Mahindra Bank": getMockBankData
KOTAK_BANK ==
    <<"K", "o", "t", "a", "k", " ", "M", "a", "h", "i", "n", "d", "r", "a",
      " ", "B", "a", "n", "k">>

\* "Thane": a district returned by the postal registry
REGISTRY_DISTRICT == <<"T", "h", "a", "n", "e">>

----------------------------------------------------------------------------
(* OnboardingStep and the step order *)

WELCOME == "welcome"
BUSINESS_INFO == "business_info"
DOCUMENT_UPLOAD == "document_upload"
FORM_COMPLETION == "form_completion"
VERIFICATION == "verification"
REVIEW == "review"
SUBMITTED == "submitted"

\* result of shouldMoveToNextStep when no case returns
NoStep == "undefined"

StepOrder ==
    <<WELCOME, BUSINESS_INFO, DOCUMENT_UPLOAD, FORM_COMPLETION,
      VERIFICATION, REVIEW, SUBMITTED>>

Steps == {StepOrder[i] : i \in 1..Len(StepOrder)}

\* steps.indexOf(step)
StepIndex(step) == CHOOSE i \in 1..Len(StepOrder) : StepOrder[i] = step

----------------------------------------------------------------------------
(* OnboardingAgent: step progression *)

\* fault: isFormComplete with the last required field left off the list
isFormComplete_NoCategory(data) ==
    \A field \in {"businessName", "ownerName", "email", "phone", "pan",
                  "address", "city", "state", "pincode", "accountNumber",
                  "ifscCode"} : Truthy(Get(data, field))

\* requiredFields.every(field => data[field])
isFormComplete(data) ==
    \A field \in {"businessName", "ownerName", "email", "phone", "pan",
                  "address", "city", "state", "pincode", "accountNumber",
                  "ifscCode", "category"} : Truthy(Get(data, field))

\* fault: only the documents that passed validation count
hasRequiredDocs_ValidOnly(extractedDocuments) ==
    LET uploadedTypes ==
            {extractedDocuments[i].documentType :
                i \in {j \in 1..Len(extractedDocuments) :
                          extractedDocuments[j].validationStatus = "valid"}}
    IN  \A doc \in {"business_proof", "id_proof", "bank_proof"} : doc \in uploadedTypes

\* requiredDocs.every(doc => uploadedTypes.includes(doc))
hasRequiredDocs(extractedDocuments) ==
    LET uploadedTypes ==
            {extractedDocuments[i].documentType : i \in 1..Len(extractedDocuments)}
    IN  \A doc \in {"business_proof", "id_proof", "bank_proof"} : doc \in uploadedTypes

\* shouldMoveToNextStep with one fault injected:
\*   "no_gate"       welcome moves on without a business name
\*   "both_tax_ids"  business_info asks for gstin and pan, not one of them
\*   "step_back"     verification returns the step before it
\*   "restart"       the default case returns the first step
FaultyNextStep(context, dataUpdates, fault) ==
    LET currentStep == context.currentStep
        updatedData == Spread(context.merchantData, dataUpdates)
    IN  CASE currentStep = WELCOME ->
                IF Truthy(Get(updatedData, "businessName")) \/ fault = "no_gate"
                THEN BUSINESS_INFO ELSE NoStep
          [] currentStep = BUSINESS_INFO ->
                IF /\ Truthy(Get(updatedData, "businessName"))
                   /\ Truthy(Get(updatedData, "ownerName"))
                   /\ IF fault = "both_tax_ids"
                      THEN Truthy(Get(updatedData, "gstin")) /\ Truthy(Get(updatedData, "pan"))
                      ELSE Truthy(Get(updatedData, "gstin")) \/ Truthy(Get(updatedData, "pan"))
                THEN DOCUMENT_UPLOAD ELSE NoStep
          [] currentStep = DOCUMENT_UPLOAD ->
                IF hasRequiredDocs(context.extractedDocuments)
                THEN FORM_COMPLETION ELSE NoStep
          [] currentStep = FORM_COMPLETION ->
                IF isFormComplete(updatedData)
                THEN VERIFICATION ELSE NoStep
          [] currentStep = VERIFICATION ->
                IF fault = "step_back" THEN FORM_COMPLETION ELSE REVIEW
          [] currentStep = REVIEW -> SUBMITTED
          [] OTHER -> IF fault = "restart" THEN WELCOME ELSE NoStep

shouldMoveToNextStep_NoGate(context, dataUpdates) ==
    FaultyNextStep(context, dataUpdates, "no_gate")

shouldMoveToNextStep_BothTaxIds(context, dataUpdates) ==
    FaultyNextStep(context, dataUpdates, "both_tax_ids")

shouldMoveToNextStep_StepBack(context, dataUpdates) ==
    FaultyNextStep(context, dataUpdates, "step_back")

shouldMoveToNextStep_Restart(context, dataUpdates) ==
    FaultyNextStep(context, dataUpdates, "restart")

shouldMoveToNextStep(context, dataUpdates) ==
    LET currentStep == context.currentStep
        extractedDocuments == context.extractedDocuments
        \* Apply data updates
        updatedData == Spread(context.merchantData, dataUpdates)
    IN  CASE currentStep = WELCOME ->
                IF Truthy(Get(updatedData, "businessName"))
                THEN BUSINESS_INFO ELSE NoStep
          [] currentStep = BUSINESS_INFO ->
                IF /\ Truthy(Get(updatedData, "businessName"))
                   /\ Truthy(Get(updatedData, "ownerName"))
                   /\ \/ Truthy(Get(updatedData, "gstin"))
                      \/ Truthy(Get(updatedData, "pan"))
                THEN DOCUMENT_UPLOAD ELSE NoStep
          [] currentStep = DOCUMENT_UPLOAD ->
                IF hasRequiredDocs(extractedDocuments)
                THEN FORM_COMPLETION ELSE NoStep
          [] currentStep = FORM_COMPLETION ->
                IF isFormComplete(updatedData)
                THEN VERIFICATION ELSE NoStep
          [] currentStep = VERIFICATION -> REVIEW
          [] currentStep = REVIEW -> SUBMITTED
          [] OTHER -> NoStep

----------------------------------------------------------------------------
(* OnboardingAgent: conversation *)

\* checkProactiveIntervention: the reply of the intervention, or Null for none.
\* dropOffRisk is a number in [0,1], held here in thousandths.
checkProactiveIntervention(context) ==
    LET userBehavior == context.userBehavior
    IN  IF userBehavior.dropOffRisk > 700 THEN OFFER_HELP
        ELSE IF userBehavior.timeOnCurrentStep > 120 THEN OFFER_EXPLAIN
        ELSE IF /\ userBehavior.fieldsCompleted * 10 < 3 * userBehavior.fieldsTotal
                /\ userBehavior.totalTimeSpent > 300
             THEN OFFER_AUTOFILL
        ELSE Null

\* fault: the step is evaluated before the intervention is returned
handleConversation_StepOnIntervention(userMessage, context, llm) ==
    LET intervention == checkProactiveIntervention(context)
        dataUpdates == llm.extracted
        nextStep == shouldMoveToNextStep(context, dataUpdates)
    IN  IF llm.failsAt = "intent"
        THEN [threw |-> TRUE, intervention |-> FALSE, response |-> <<>>,
              hasDataUpdates |-> FALSE, dataUpdates |-> EmptyObject,
              nextStep |-> NoStep]
        ELSE IF intervention # Null
        THEN [threw |-> FALSE, intervention |-> TRUE, response |-> intervention,
              hasDataUpdates |-> FALSE, dataUpdates |-> EmptyObject,
              nextStep |-> shouldMoveToNextStep(context, EmptyObject)]
        ELSE IF llm.failsAt \in {"reply", "extract"}
        THEN [threw |-> TRUE, intervention |-> FALSE, response |-> <<>>,
              hasDataUpdates |-> FALSE, dataUpdates |-> EmptyObject,
              nextStep |-> NoStep]
        ELSE [threw |-> FALSE, intervention |-> FALSE, response |-> llm.reply,
              hasDataUpdates |-> TRUE, dataUpdates |-> dataUpdates,
              nextStep |-> nextStep]

\* handleConversation.  llm is what the three LLM calls do in this request:
\*   llm.failsAt   "intent" | "reply" | "extract": the call that rejects, or "never"
\*   llm.reply     the text of the generated reply
\*   llm.extracted the object extractDataFromConversation returns (the parsed
\*                 JSON, or {} when JSON.parse throws)
\* The result has threw = TRUE when the promise rejects.
handleConversation(userMessage, context, llm) ==
    LET intervention == checkProactiveIntervention(context)
        dataUpdates == llm.extracted
        nextStep == shouldMoveToNextStep(context, dataUpdates)
    IN  IF llm.failsAt = "intent"
        THEN [threw |-> TRUE, intervention |-> FALSE, response |-> <<>>,
              hasDataUpdates |-> FALSE, dataUpdates |-> EmptyObject,
              nextStep |-> NoStep]
        ELSE IF intervention # Null
        THEN [threw |-> FALSE, intervention |-> TRUE, response |-> intervention,
              hasDataUpdates |-> FALSE, dataUpdates |-> EmptyObject,
              nextStep |-> NoStep]
        ELSE IF llm.failsAt \in {"reply", "extract"}
        THEN [threw |-> TRUE, intervention |-> FALSE, response |-> <<>>,
              hasDataUpdates |-> FALSE, dataUpdates |-> EmptyObject,
              nextStep |-> NoStep]
        ELSE [threw |-> FALSE, intervention |-> FALSE, response |-> llm.reply,
              hasDataUpdates |-> TRUE, dataUpdates |-> dataUpdates,
              nextStep |-> nextStep]

----------------------------------------------------------------------------
(* ValidationEngine: document validation *)

\* /^[0-9]{2}[A-Z]{5}[0-9]{4}[A-Z]{1}[1-9A-Z]{1}Z[0-9A-Z]{1}$/
isValidGSTIN(gstin) ==
    /\ Len(gstin) = 15
    /\ \A i \in 1..2 : gstin[i] \in Digits
    /\ \A i \in 3..7 : gstin[i] \in UpperLetters
    /\ \A i \in 8..11 : gstin[i] \in Digits
    /\ gstin[12] \in UpperLetters
    /\ gstin[13] \in (Digits \ {"0"}) \cup UpperLetters
    /\ gstin[14] = "Z"
    /\ gstin[15] \in Digits \cup UpperLetters

\* /^[A-Z]{5}[0-9]{4}[A-Z]{1}$/
isValidPAN(pan) ==
    /\ Len(pan) = 10
    /\ \A i \in 1..5 : pan[i] \in UpperLetters
    /\ \A i \in 6..9 : pan[i] \in Digits
    /\ pan[10] \in UpperLetters

\* /^[A-Z]{4}0[A-Z0-9]{6}$/
isValidIFSC(ifsc) ==
    /\ Len(ifsc) = 11
    /\ \A i \in 1..4 : ifsc[i] \in UpperLetters
    /\ ifsc[5] = "0"
    /\ \A i \in 6..11 : ifsc[i] \in UpperLetters \cup Digits

\* issues.push(msg) when cond
PushIf(cond, msg) == IF cond THEN <<msg>> ELSE <<>>

validateDocument(data, documentType) ==
    LET issues ==
            CASE documentType = "business_proof" ->
                    PushIf(~Truthy(Get(data, "business_name")),
                           "Business name is required")
                    \o PushIf(Truthy(Get(data, "gstin")) /\ ~isValidGSTIN(data["gstin"]),
                              "Invalid GSTIN format")
                    \o PushIf(~Truthy(Get(data, "address")),
                              "Business address not found")
              [] documentType = "id_proof" ->
                    PushIf(~Truthy(Get(data, "name")),
                           "Name not found on document")
                    \o PushIf(Truthy(Get(data, "pan")) /\ ~isValidPAN(data["pan"]),
                              "Invalid PAN format")
              [] documentType = "bank_proof" ->
                    PushIf(~Truthy(Get(data, "account_number")),
                           "Account number not found")
                    \o PushIf(Truthy(Get(data, "ifsc")) /\ ~isValidIFSC(data["ifsc"]),
                              "Invalid IFSC code")
              [] OTHER -> <<>>
    IN  [isValid |-> Len(issues) = 0, issues |-> issues]

----------------------------------------------------------------------------
(* OnboardingAgent: document processing *)

\* extractText: the quality of the simulated OCR, in thousandths
OcrQuality == 920

Min(a, b) == IF a < b THEN a ELSE b

\* calculateConfidence, in thousandths:
\*   quality * 0.4 + min(keys / 10, 1) * 0.3 + (isValid ? 0.3 : 0), at most 1
calculateConfidence(ocrQuality, extractedData, validation) ==
    LET completeness == Cardinality(DOMAIN extractedData) * 100
        score == (ocrQuality * 4) \div 10
                 + (Min(completeness, 1000) * 3) \div 10
                 + (IF validation.isValid THEN 300 ELSE 0)
    IN  Min(score, 1000)

\* getDocumentFieldMapping: document field -> merchant field
getDocumentFieldMapping(documentType) ==
    CASE documentType = "business_proof" ->
            [business_name |-> "businessName", gstin |-> "gstin",
             trade_license |-> "tradeLicenseNumber", address |-> "address"]
      [] documentType = "id_proof" ->
            [name |-> "ownerName", pan |-> "pan", address |-> "address"]
      [] documentType = "bank_proof" ->
            [account_number |-> "accountNumber", ifsc |-> "ifscCode",
             bank_name |-> "bankName", account_holder |-> "accountHolderName"]
      [] OTHER -> EmptyObject

\* autoFillFromDocument: context.merchantData after the loop.  The targets of
\* one mapping are distinct, so the order of the entries does not matter.
autoFillFromDocument(document, merchantData) ==
    LET mapping == getDocumentFieldMapping(document.documentType)
        filled == {docField \in DOMAIN mapping :
                       Truthy(Get(document.extractedData, docField))}
        source(merchantField) ==
            CHOOSE docField \in filled : mapping[docField] = merchantField
    IN  [merchantField \in (DOMAIN merchantData) \cup {mapping[f] : f \in filled} |->
            IF merchantField \in {mapping[f] : f \in filled}
            THEN document.extractedData[source(merchantField)]
            ELSE merchantData[merchantField]]

\* processDocument, after extractEntities returned extractedData: the
\* ExtractedDocument and context.merchantData, which the call writes in place
processDocument(documentType, extractedData, context) ==
    LET validation == validateDocument(extractedData, documentType)
        confidence == calculateConfidence(OcrQuality, extractedData, validation)
        result == [documentType |-> documentType,
                   extractedData |-> extractedData,
                   confidence |-> confidence,
                   validationStatus |-> IF validation.isValid THEN "valid" ELSE "invalid",
                   issues |-> validation.issues]
    IN  [result |-> result,
         merchantData |->
            IF confidence > 850 /\ validation.isValid
            THEN autoFillFromDocument(result, context.merchantData)
            ELSE context.merchantData]

----------------------------------------------------------------------------
(* ExternalAPIService *)

\* fetchGSTDetails: the mock record
fetchGSTDetails(gstin) ==
    [businessName |-> GST_BUSINESS_NAME, gstin |-> gstin, address |-> GST_ADDRESS,
     state |-> MAHARASHTRA, registrationDate |-> GST_REG_DATE,
     businessType |-> PROPRIETORSHIP, status |-> ACTIVE]

\* fetchPANDetails: the mock record
fetchPANDetails(pan) ==
    [name |-> JOHN_DOE, pan |-> pan, status |-> VALID, category |-> INDIVIDUAL]

getMockLocationData(pincode) ==
    CASE pincode = PINCODE_KNOWN ->
            [city |-> MUMBAI, district |-> MUMBAI, state |-> MAHARASHTRA,
             country |-> INDIA]
      [] pincode = PINCODE_DELHI ->
            [city |-> NEW_DELHI, district |-> CENTRAL_DELHI, state |-> DELHI,
             country |-> INDIA]
      [] pincode = PINCODE_BANGALORE ->
            [city |-> BANGALORE, district |-> BANGALORE_URBAN, state |-> KARNATAKA,
             country |-> INDIA]
      [] OTHER ->
            [city |-> UNKNOWN, state |-> UNKNOWN, country |-> INDIA]

\* fetchLocationFromPincode.  answer is what the postal registry does:
\*   "found"      Status 'Success' with a post office
\*   "not_found"  a reply without a post office
\*   "failed"     the fetch rejects or the reply is not ok
fetchLocationFromPincode(pincode, answer) ==
    CASE answer = "found" ->
            [city |-> REGISTRY_DISTRICT, district |-> REGISTRY_DISTRICT,
             state |-> MAHARASHTRA, country |-> INDIA]
      [] answer = "not_found" -> EmptyObject
      [] OTHER -> getMockLocationData(pincode)

\* ifscCode.substring(0, 4)
BankCode(ifscCode) == SubSeq(ifscCode, 1, Min(4, Len(ifscCode)))

getMockBankData(ifscCode) ==
    LET bankCode == BankCode(ifscCode)
        bankName ==
            CASE bankCode = <<"S", "B", "I", "N">> -> SBI
              [] bankCode = <<"H", "D", "F", "C">> -> HDFC_BANK
              [] bankCode = <<"I", "C", "I", "C">> -> ICICI_BANK
              [] bankCode = <<"U", "T", "I", "B">> -> AXIS_BANK
              [] bankCode = <<"K", "K", "B", "K">> -> KOTAK_BANK
              [] OTHER -> UNKNOWN_BANK
    IN  [bankName |-> bankName, branch |-> MAIN_BRANCH, city |-> MUMBAI,
         state |-> MAHARASHTRA]

\* fetchBankDetails.  answer is "found" when the IFSC registry replies ok,
\* "failed" when the fetch rejects or the reply is not ok.
fetchBankDetails(ifscCode, answer) ==
    IF answer = "found"
    THEN [bankName |-> SBI, branch |-> FORT_BRANCH, address |-> DOC_ADDRESS,
          city |-> MUMBAI, state |-> MAHARASHTRA, micr |-> MICR]
    ELSE getMockBankData(ifscCode)

----------------------------------------------------------------------------
(* OnboardingAgent: enrichment *)

\* enrichData.  registry.pincode and registry.ifsc are the answers of the two
\* registries that are reached over the network.
enrichData(context, registry) ==
    LET merchantData == context.merchantData
        afterGst ==
            IF Truthy(Get(merchantData, "gstin"))
            THEN Spread(EmptyObject, fetchGSTDetails(merchantData["gstin"]))
            ELSE EmptyObject
        afterPan ==
            IF Truthy(Get(merchantData, "pan"))
            THEN Spread(afterGst, fetchPANDetails(merchantData["pan"]))
            ELSE afterGst
        afterPincode ==
            IF Truthy(Get(merchantData, "pincode")) /\ ~Truthy(Get(merchantData, "city"))
            THEN Spread(afterPan,
                        fetchLocationFromPincode(merchantData["pincode"], registry.pincode))
            ELSE afterPan
    IN  IF Truthy(Get(merchantData, "ifscCode"))
        THEN Spread(afterPincode, fetchBankDetails(merchantData["ifscCode"], registry.ifsc))
        ELSE afterPincode

----------------------------------------------------------------------------
(* ValidationEngine: final validation *)

\* the required fields of validateMerchantData, in the order of the loop
SubmitRequiredFields ==
    <<"businessName", "ownerName", "email", "phone", "pan", "address", "city",
      "state", "pincode", "accountNumber", "ifscCode", "accountHolderName",
      "category">>

\* the fields of the issues validateMerchantData pushes (all of severity 'error')
RECURSIVE MissingFields(_, _)
MissingFields(data, i) ==
    IF i > Len(SubmitRequiredFields) THEN <<>>
    ELSE PushIf(~Truthy(Get(data, SubmitRequiredFields[i])), SubmitRequiredFields[i])
         \o MissingFields(data, i + 1)

validateMerchantData(data) ==
    LET issues == MissingFields(data, 1)
    IN  [isValid |-> Len(issues) = 0, issues |-> issues]

----------------------------------------------------------------------------
(* OnboardingAgent: drop-off risk *)

\* fieldsCompleted / fieldsTotal < 0.2.  The quotient of a division by zero
\* is NaN or Infinity, and neither is below 0.2.
LowCompletionRate(behavior) ==
    /\ {"fieldsCompleted", "fieldsTotal"} \subseteq DOMAIN behavior
    /\ behavior.fieldsTotal > 0
    /\ 5 * behavior.fieldsCompleted < behavior.fieldsTotal

\* behavior[counter] > limit and behavior[counter] < limit; a comparison with
\* the undefined value of an absent counter is false
Above(behavior, counter, limit) ==
    counter \in DOMAIN behavior /\ behavior[counter] > limit

Below(behavior, counter, limit) ==
    counter \in DOMAIN behavior /\ behavior[counter] < limit

\* fault: progress is rewarded instead of its absence being penalised
calculateDropOffRisk_RewardsProgress(behavior) ==
    LET risk ==
            (IF Above(behavior, "timeOnCurrentStep", 180) THEN 300 ELSE 0)
            + (IF Above(behavior, "totalTimeSpent", 900)
                  /\ Below(behavior, "fieldsCompleted", 5)
               THEN 200 ELSE 0)
            - (IF ~LowCompletionRate(behavior) THEN 300 ELSE 0)
            + (IF Len(behavior.hesitationPoints) > 3 THEN 200 ELSE 0)
    IN  Min(risk, 1000)

\* calculateDropOffRisk, in thousandths, of a snapshot that has its
\* hesitationPoints array
calculateDropOffRisk(behavior) ==
    LET risk ==
            (IF Above(behavior, "timeOnCurrentStep", 180) THEN 300 ELSE 0)
            + (IF Above(behavior, "totalTimeSpent", 900)
                  /\ Below(behavior, "fieldsCompleted", 5)
               THEN 200 ELSE 0)
            + (IF LowCompletionRate(behavior) THEN 300 ELSE 0)
            + (IF Len(behavior.hesitationPoints) > 3 THEN 200 ELSE 0)
    IN  Min(risk, 1000)

----------------------------------------------------------------------------
(* ValidationEngine: field validation *)

\* a number, written by its decimal digits
NumberValue(digits) == <<"<number>">> \o digits

IsNumber(value) == Len(value) > 0 /\ value[1] = "<number>"

\* typeof value === 'string'
IsString(value) == value # Null /\ value # Undefined /\ ~IsNumber(value)

\* !value
Not(value) == ~Truthy(value) \/ value = NumberValue(<<"0">>)

\* String(value), as RegExp.prototype.test reads a truthy argument
ToText(value) == IF IsNumber(value) THEN Tail(value) ELSE value

Alphabet ==
    <<"A", "B", "C", "D", "E", "F", "G", "H", "I", "J", "K", "L", "M",
      "N", "O", "P", "Q", "R", "S", "T", "U", "V", "W", "X", "Y", "Z">>

LowerAlphabet ==
    <<"a", "b", "c", "d", "e", "f", "g", "h", "i", "j", "k", "l", "m",
      "n", "o", "p", "q", "r", "s", "t", "u", "v", "w", "x", "y", "z">>

LowerLetters == {LowerAlphabet[i] : i \in 1..Len(LowerAlphabet)}

\* the sharp s, which has no single upper-case character
SHARP_S == "ß"

\* String.prototype.toUpperCase on one character: the Unicode special casing
\* turns the sharp s into two characters
UpperCaseOf(char) ==
    IF char \in LowerLetters
    THEN <<Alphabet[CHOOSE i \in 1..Len(LowerAlphabet) : LowerAlphabet[i] = char]>>
    ELSE IF char = SHARP_S THEN <<"S", "S">>
    ELSE <<char>>

RECURSIVE toUpperCase(_)
toUpperCase(text) ==
    IF text = <<>> THEN <<>> ELSE UpperCaseOf(Head(text)) \o toUpperCase(Tail(text))

\* \s
Whitespace == {" ", "\t", "\n"}

\* text.replace(/[...]/g, '')
RECURSIVE Without(_, _)
Without(text, chars) ==
    IF text = <<>> THEN <<>>
    ELSE (IF Head(text) \in chars THEN <<>> ELSE <<Head(text)>>)
         \o Without(Tail(text), chars)

\* String.prototype.trim
RECURSIVE trimStart(_)
trimStart(text) ==
    IF text # <<>> /\ Head(text) \in Whitespace THEN trimStart(Tail(text)) ELSE text

RECURSIVE trimEnd(_)
trimEnd(text) ==
    IF text # <<>> /\ text[Len(text)] \in Whitespace
    THEN trimEnd(SubSeq(text, 1, Len(text) - 1)) ELSE text

trim(text) == trimEnd(trimStart(text))

\* /^[^\s@]+@[^\s@]+\.[^\s@]+$/
emailRegex(text) ==
    /\ \A i \in 1..Len(text) : text[i] \notin Whitespace
    /\ \E at \in 2..Len(text) :
          /\ text[at] = "@"
          /\ \A i \in 1..Len(text) : text[i] = "@" => i = at
          /\ \E dot \in (at + 2)..(Len(text) - 1) : text[dot] = "."

\* /^[6-9]\d{9}$/
phoneRegex(text) ==
    /\ Len(text) = 10
    /\ text[1] \in {"6", "7", "8", "9"}
    /\ \A i \in 2..10 : text[i] \in Digits

\* /^[1-9][0-9]{5}$/
pincodeRegex(text) ==
    /\ Len(text) = 6
    /\ text[1] \in Digits \ {"0"}
    /\ \A i \in 2..6 : text[i] \in Digits

\* /\d/
HasDigit(text) == \E i \in 1..Len(text) : text[i] \in Digits

\* /^\d+$/
AllDigits(text) == Len(text) > 0 /\ \A i \in 1..Len(text) : text[i] \in Digits

\* a method of String.prototype called on a value that has none
TypeError == [threw |-> "TypeError"]

Threw(outcome) == "threw" \in DOMAIN outcome

Invalid(field, error, suggestion) ==
    [field |-> field, isValid |-> FALSE, error |-> error, suggestion |-> suggestion,
     severity |-> "error"]

\* an invalid outcome that carries no suggestion
InvalidBare(field, error) ==
    [field |-> field, isValid |-> FALSE, error |-> error, severity |-> "error"]

Valid(field) == [field |-> field, isValid |-> TRUE, severity |-> "info"]

validateBusinessName(value) ==
    IF Not(value)
    THEN Invalid("businessName", "Business name is too short",
                 "Please enter your complete business name as registered")
    ELSE IF ~IsString(value) THEN TypeError
    ELSE IF Len(trim(value)) < 2
    THEN Invalid("businessName", "Business name is too short",
                 "Please enter your complete business name as registered")
    ELSE IF Len(value) > 100
    THEN Invalid("businessName", "Business name is too long",
                 "Please use the official registered name (max 100 characters)")
    ELSE Valid("businessName")

validateOwnerName(value) ==
    IF Not(value)
    THEN Invalid("ownerName", "Please enter your full name",
                 "Use your name as it appears on official documents")
    ELSE IF ~IsString(value) THEN TypeError
    ELSE IF Len(trim(value)) < 2
    THEN Invalid("ownerName", "Please enter your full name",
                 "Use your name as it appears on official documents")
    ELSE IF HasDigit(value)
    THEN Invalid("ownerName", "Name should not contain numbers",
                 "Please enter your name using only letters")
    ELSE Valid("ownerName")

validateEmail(value) ==
    IF Not(value)
    THEN Invalid("email", "Email is required",
                 "We'll use this to send important updates about your application")
    ELSE IF ~emailRegex(ToText(value))
    THEN Invalid("email", "Invalid email format",
                 "Please enter a valid email (e.g., yourname@example.com)")
    ELSE Valid("email")

\* validatePhone calls value.replace before it tests !value
validatePhone(value) ==
    IF ~IsString(value) THEN TypeError
    ELSE IF Not(value)
    THEN Invalid("phone", "Phone number is required",
                 "We'll use this for important notifications")
    ELSE IF ~phoneRegex(Without(value, Whitespace \cup {"-", "(", ")"}))
    THEN Invalid("phone", "Invalid phone number",
                 "Please enter a valid 10-digit Indian mobile number")
    ELSE Valid("phone")

validateGSTIN(value) ==
    IF Not(value) THEN Valid("gstin")
    ELSE IF ~isValidGSTIN(ToText(value))
    THEN Invalid("gstin", "Invalid GSTIN format",
                 "GSTIN should be 15 characters (e.g., 27AABCU9603R1ZM)")
    ELSE Valid("gstin")

validatePAN(value) ==
    IF Not(value)
    THEN Invalid("pan", "PAN is required",
                 "PAN is mandatory for payment gateway registration")
    ELSE IF ~IsString(value) THEN TypeError
    ELSE IF ~isValidPAN(toUpperCase(value))
    THEN Invalid("pan", "Invalid PAN format",
                 "PAN should be 10 characters (e.g., ABCDE1234F)")
    ELSE Valid("pan")

validatePincode(value) ==
    IF Not(value) THEN InvalidBare("pincode", "Pincode is required")
    ELSE IF ~pincodeRegex(ToText(value))
    THEN Invalid("pincode", "Invalid pincode",
                 "Please enter a valid 6-digit Indian pincode")
    ELSE Valid("pincode")

validateIFSC(value) ==
    IF Not(value)
    THEN Invalid("ifscCode", "IFSC code is required",
                 "You can find this on your cheque or passbook")
    ELSE IF ~IsString(value) THEN TypeError
    ELSE IF ~isValidIFSC(toUpperCase(value))
    THEN Invalid("ifscCode", "Invalid IFSC code",
                 "IFSC should be 11 characters (e.g., SBIN0001234)")
    ELSE Valid("ifscCode")

\* validateAccountNumber calls value.replace first
validateAccountNumber(value) ==
    IF ~IsString(value) THEN TypeError
    ELSE LET cleanValue == Without(value, Whitespace \cup {"-"})
         IN  IF cleanValue = <<>>
             THEN InvalidBare("accountNumber", "Account number is required")
             ELSE IF Len(cleanValue) < 9 \/ Len(cleanValue) > 18
             THEN Invalid("accountNumber", "Invalid account number length",
                          "Account number should be between 9-18 digits")
             ELSE IF ~AllDigits(cleanValue)
             THEN InvalidBare("accountNumber",
                              "Account number should contain only digits")
             ELSE Valid("accountNumber")

\* the keys of the validators table
ValidatedFields ==
    {"businessName", "ownerName", "email", "phone", "gstin", "pan", "pincode",
     "ifscCode", "accountNumber"}

validateField(field, value) ==
    CASE field = "businessName" -> validateBusinessName(value)
      [] field = "ownerName" -> validateOwnerName(value)
      [] field = "email" -> validateEmail(value)
      [] field = "phone" -> validatePhone(value)
      [] field = "gstin" -> validateGSTIN(value)
      [] field = "pan" -> validatePAN(value)
      [] field = "pincode" -> validatePincode(value)
      [] field = "ifscCode" -> validateIFSC(value)
      [] field = "accountNumber" -> validateAccountNumber(value)
      [] OTHER -> Valid(field)

----------------------------------------------------------------------------
(* Bounds of the model *)

\* sendMessage requests a session may complete
MaxMessages == 7

\* documents a session may upload
MaxDocs == 3

\* ticks of the clock
MaxNow == 1

\* seconds in one tick of the clock
TickSeconds == 301

\* session identifiers uuidv4 may return, and identifiers it never returned
SessionIds == {"s1"}
UnknownIds == {"s0"}

\* sendMessage requests that may await the agent at the same time
MaxPending == 2

----------------------------------------------------------------------------
(* OnboardingController: the session store and the request handlers *)

\* the record of the request being served, written to `last`: the handler,
\* the code it answered, the session it addressed and the step that session
\* was at when the request arrived
ServedRequest(op, code, sessionId, body) ==
    [op |-> op, code |-> code, sessionId |-> sessionId,
     step |-> IF sessionId \in DOMAIN sessions
              THEN sessions[sessionId].currentStep ELSE NoStep,
     body |-> body]

\* a request whose body carries no data for the record
Served(op, code, sessionId) == ServedRequest(op, code, sessionId, EmptyObject)

\* the handler returns an error without writing to the session store
Rejected(op, code, sessionId) ==
    /\ last' = Served(op, code, sessionId)
    /\ UNCHANGED <<sessions, now, pending>>

\* the handler wrote `session` and answered success
Answered(op, sessionId, session) ==
    /\ sessions' = [sessions EXCEPT ![sessionId] = session]
    /\ last' = Served(op, "OK", sessionId)
    /\ UNCHANGED <<now, pending>>

\* the handler returns an error without writing to the session store
RejectedRequest(op, code, sessionId, body) ==
    /\ last' = ServedRequest(op, code, sessionId, body)
    /\ UNCHANGED <<sessions, now, pending>>

\* the handler wrote `session` and answered success
AnsweredRequest(op, sessionId, session, body) ==
    /\ sessions' = [sessions EXCEPT ![sessionId] = session]
    /\ last' = ServedRequest(op, "OK", sessionId, body)
    /\ UNCHANGED <<now, pending>>

\* req.body of sendMessage; an empty message is as good as none
MessageBody(message) == [message |-> message]

\* req.file and req.body.documentType of uploadDocument; a request without
\* the documentType field reads undefined
NoDocumentType == "undefined"
UploadBody(hasFile, documentType) == [file |-> hasFile, documentType |-> documentType]

Init ==
    /\ sessions = [id \in {} |-> EmptyObject]
    /\ now = 0
    /\ last = [op |-> "none", code |-> "none", sessionId |-> "", step |-> NoStep,
               body |-> EmptyObject]
    /\ pending = {}

\* time passes between two requests
Tick ==
    /\ now < MaxNow
    /\ now' = now + 1
    /\ UNCHANGED <<sessions, last, pending>>

StartSession ==
    \E sessionId \in SessionIds \ DOMAIN sessions :
        /\ sessions' =
              sessionId :> [startedAt |-> now,
                            lastActivityAt |-> now,
                            currentStep |-> WELCOME,
                            merchantData |-> EmptyObject,
                            documents |-> <<>>,
                            conversationHistory |-> <<>>,
                            interventions |-> <<>>,
                            status |-> "in_progress",
                            submittedAt |-> <<>>]
              @@ sessions
        /\ last' = Served("startSession", "OK", sessionId)
        /\ UNCHANGED <<now, pending>>

\* fault: resumeSession writes lastActivityAt before it looks at the session,
\* and the catch block answers
ResumeSession_CatchAll(sessionId) ==
    IF sessionId \notin DOMAIN sessions
    THEN Rejected("resumeSession", "SESSION_RESUME_FAILED", sessionId)
    ELSE Answered("resumeSession", sessionId,
                  [sessions[sessionId] EXCEPT !.lastActivityAt = now])

ResumeSession(sessionId) ==
    IF sessionId \notin DOMAIN sessions
    THEN Rejected("resumeSession", "SESSION_NOT_FOUND", sessionId)
    ELSE Answered("resumeSession", sessionId,
                  [sessions[sessionId] EXCEPT !.lastActivityAt = now])

\* the agent context sendMessage builds
MessageContext(session) ==
    [currentStep |-> session.currentStep,
     merchantData |-> session.merchantData,
     conversationHistory |-> session.conversationHistory,
     userBehavior |->
        [timeOnCurrentStep |-> 0,
         totalTimeSpent |-> (now - session.startedAt) * TickSeconds,
         fieldsCompleted |-> Cardinality(DOMAIN session.merchantData),
         fieldsTotal |-> 13,
         documentsUploaded |-> Len(session.documents),
         documentsRequired |-> 3,
         hesitationPoints |-> <<>>,
         dropOffRisk |-> 200],
     extractedDocuments |-> session.documents]

\* fault: the user message is logged before the agent is awaited
SendMessage_LogsBeforeReply(sessionId, message, llm) ==
    IF sessionId = "" \/ message = <<>>
    THEN RejectedRequest("sendMessage", "INVALID_REQUEST", sessionId, MessageBody(message))
    ELSE IF sessionId \notin DOMAIN sessions
    THEN RejectedRequest("sendMessage", "SESSION_NOT_FOUND", sessionId,
                         MessageBody(message))
    ELSE
       /\ Len(sessions[sessionId].conversationHistory) < 2 * MaxMessages
       /\ LET session == sessions[sessionId]
              aiResponse == handleConversation(message, MessageContext(session), llm)
              history ==
                  session.conversationHistory
                  \o << [role |-> "user", content |-> message],
                        [role |-> "agent", content |-> aiResponse.response] >>
          IN  IF aiResponse.threw
              THEN /\ sessions' =
                        [sessions EXCEPT ![sessionId].conversationHistory =
                            Append(@, [role |-> "user", content |-> message])]
                   /\ last' = ServedRequest("sendMessage", "MESSAGE_FAILED", sessionId,
                                            MessageBody(message))
                   /\ UNCHANGED <<now, pending>>
              ELSE AnsweredRequest("sendMessage", sessionId,
                     [session EXCEPT
                        !.conversationHistory = history,
                        !.merchantData =
                            IF aiResponse.hasDataUpdates
                            THEN Spread(@, aiResponse.dataUpdates) ELSE @,
                        !.currentStep =
                            IF aiResponse.nextStep # NoStep
                            THEN aiResponse.nextStep ELSE @,
                        !.lastActivityAt = now],
                     MessageBody(message))

\* sendMessage.  The log entries carry role and content; their timestamp and
\* metadata are not read by any handler and are left out.
SendMessage(sessionId, message, llm) ==
    IF sessionId = "" \/ message = <<>>
    THEN RejectedRequest("sendMessage", "INVALID_REQUEST", sessionId, MessageBody(message))
    ELSE IF sessionId \notin DOMAIN sessions
    THEN RejectedRequest("sendMessage", "SESSION_NOT_FOUND", sessionId,
                         MessageBody(message))
    ELSE
       /\ Len(sessions[sessionId].conversationHistory) < 2 * MaxMessages
       /\ LET session == sessions[sessionId]
              aiResponse == handleConversation(message, MessageContext(session), llm)
              history ==
                  session.conversationHistory
                  \o << [role |-> "user", content |-> message],
                        [role |-> "agent", content |-> aiResponse.response] >>
          IN  IF aiResponse.threw
              THEN RejectedRequest("sendMessage", "MESSAGE_FAILED", sessionId,
                                   MessageBody(message))
              ELSE AnsweredRequest("sendMessage", sessionId,
                     [session EXCEPT
                        !.conversationHistory = history,
                        !.merchantData =
                            IF aiResponse.hasDataUpdates
                            THEN Spread(@, aiResponse.dataUpdates) ELSE @,
                        !.currentStep =
                            IF aiResponse.nextStep # NoStep
                            THEN aiResponse.nextStep ELSE @,
                        !.lastActivityAt = now],
                     MessageBody(message))

\* sendMessage up to its await: the checks and the agentContext, which holds
\* the step the session is at now and a reference to the record of now
ReceiveMessage(sessionId, message) ==
    IF sessionId = "" \/ message = <<>>
    THEN RejectedRequest("sendMessage", "INVALID_REQUEST", sessionId, MessageBody(message))
    ELSE IF sessionId \notin DOMAIN sessions
    THEN RejectedRequest("sendMessage", "SESSION_NOT_FOUND", sessionId,
                         MessageBody(message))
    ELSE
       /\ Cardinality(pending) < MaxPending
       /\ Len(sessions[sessionId].conversationHistory)
             + 2 * Cardinality({request \in pending : request.sessionId = sessionId})
               < 2 * MaxMessages
       /\ \E tag \in (1..MaxPending) \ {request.tag : request \in pending} :
             pending' = pending \cup
                 {[tag |-> tag, sessionId |-> sessionId, message |-> message,
                   agentContext |-> MessageContext(sessions[sessionId])]}
       /\ UNCHANGED <<sessions, now, last>>

\* sendMessage from the moment handleConversation settles: the agent worked
\* on the agentContext of the request, the writes go to the session of now
AnswerMessage(request, llm) ==
    LET sessionId == request.sessionId
        session == sessions[sessionId]
        aiResponse == handleConversation(request.message, request.agentContext, llm)
        history ==
            session.conversationHistory
            \o << [role |-> "user", content |-> request.message],
                  [role |-> "agent", content |-> aiResponse.response] >>
    IN  /\ request \in pending
        /\ pending' = pending \ {request}
        /\ last' = ServedRequest("sendMessage",
                                 IF aiResponse.threw THEN "MESSAGE_FAILED" ELSE "OK",
                                 sessionId, MessageBody(request.message))
        /\ sessions' =
              IF aiResponse.threw THEN sessions
              ELSE [sessions EXCEPT ![sessionId] =
                     [session EXCEPT
                        !.conversationHistory = history,
                        !.merchantData =
                            IF aiResponse.hasDataUpdates
                            THEN Spread(@, aiResponse.dataUpdates) ELSE @,
                        !.currentStep =
                            IF aiResponse.nextStep # NoStep
                            THEN aiResponse.nextStep ELSE @,
                        !.lastActivityAt = now]]
        /\ UNCHANGED now

\* fault: the auto-fill loop stops after the first field it fills
FillEmptyFields_OneField(merchantData, extractedData) ==
    LET fillable ==
            {key \in DOMAIN extractedData :
                Truthy(extractedData[key]) /\ ~Truthy(Get(merchantData, key))}
        autoFilledFields ==
            IF fillable = {} THEN {} ELSE {CHOOSE key \in fillable : TRUE}
    IN  [key \in (DOMAIN merchantData) \cup autoFilledFields |->
            IF key \in autoFilledFields THEN extractedData[key] ELSE merchantData[key]]

\* the auto-fill loop of uploadDocument over Object.entries(result.extractedData)
FillEmptyFields(merchantData, extractedData) ==
    LET autoFilledFields ==
            {key \in DOMAIN extractedData :
                Truthy(extractedData[key]) /\ ~Truthy(Get(merchantData, key))}
    IN  [key \in (DOMAIN merchantData) \cup autoFilledFields |->
            IF key \in autoFilledFields THEN extractedData[key] ELSE merchantData[key]]

\* extraction.threw: extractEntities rejects; extraction.data: what it returns
UploadDocument(sessionId, hasFile, documentType, extraction) ==
    IF ~hasFile
    THEN RejectedRequest("uploadDocument", "NO_FILE", sessionId,
                         UploadBody(hasFile, documentType))
    ELSE IF sessionId \notin DOMAIN sessions
    THEN RejectedRequest("uploadDocument", "SESSION_NOT_FOUND", sessionId,
                         UploadBody(hasFile, documentType))
    ELSE
       /\ Len(sessions[sessionId].documents) < MaxDocs
       /\ LET session == sessions[sessionId]
              agentContext == [currentStep |-> session.currentStep,
                               merchantData |-> session.merchantData,
                               extractedDocuments |-> session.documents]
              processed == processDocument(documentType, extraction.data, agentContext)
          IN  IF extraction.threw
              THEN RejectedRequest("uploadDocument", "UPLOAD_FAILED", sessionId,
                         UploadBody(hasFile, documentType))
              ELSE AnsweredRequest("uploadDocument", sessionId,
                     [session EXCEPT
                        !.documents = Append(@, processed.result),
                        !.merchantData =
                            FillEmptyFields(processed.merchantData,
                                            processed.result.extractedData),
                        !.lastActivityAt = now],
                     UploadBody(hasFile, documentType))

\* const { data } = req.body, as the spread reads it: spreading undefined
\* adds no key
DataOf(body) == IF "data" \in DOMAIN body THEN body.data ELSE EmptyObject

\* fault: updateData fills only the fields that are still empty
UpdateDataRequest_KeepExisting(sessionId, body) ==
    IF sessionId \notin DOMAIN sessions
    THEN RejectedRequest("updateData", "SESSION_NOT_FOUND", sessionId, body)
    ELSE AnsweredRequest("updateData", sessionId,
                         [sessions[sessionId] EXCEPT
                            !.merchantData = FillEmptyFields(@, DataOf(body)),
                            !.lastActivityAt = now],
                         body)

\* updateData; body is req.body, [data |-> object] or {} when data is missing
UpdateDataRequest(sessionId, body) ==
    IF sessionId \notin DOMAIN sessions
    THEN RejectedRequest("updateData", "SESSION_NOT_FOUND", sessionId, body)
    ELSE AnsweredRequest("updateData", sessionId,
                         [sessions[sessionId] EXCEPT
                            !.merchantData = Spread(@, DataOf(body)),
                            !.lastActivityAt = now],
                         body)

UpdateData(sessionId, data) == UpdateDataRequest(sessionId, [data |-> data])

EnrichDataRequest(sessionId, body, registry) ==
    IF sessionId \notin DOMAIN sessions
    THEN RejectedRequest("enrichData", "SESSION_NOT_FOUND", sessionId, body)
    ELSE LET session == sessions[sessionId]
             agentContext == [currentStep |-> session.currentStep,
                              merchantData |-> Spread(session.merchantData, DataOf(body)),
                              extractedDocuments |-> session.documents]
             enrichedData == enrichData(agentContext, registry)
         IN  AnsweredRequest("enrichData", sessionId,
                    [session EXCEPT
                       !.merchantData = Spread(@, enrichedData),
                       !.lastActivityAt = now],
                    body)

EnrichData(sessionId, data, registry) ==
    EnrichDataRequest(sessionId, [data |-> data], registry)

SaveDraftRequest(sessionId, body) ==
    IF sessionId \notin DOMAIN sessions
    THEN RejectedRequest("saveDraft", "SESSION_NOT_FOUND", sessionId, body)
    ELSE AnsweredRequest("saveDraft", sessionId,
                         [sessions[sessionId] EXCEPT
                            !.merchantData = Spread(@, DataOf(body)),
                            !.status = "paused",
                            !.lastActivityAt = now],
                         body)

SaveDraft(sessionId, data) == SaveDraftRequest(sessionId, [data |-> data])

\* the handler returns an error whose details are the validation issues,
\* without writing to the session store
RejectedWithDetails(op, code, sessionId, body, details) ==
    /\ last' = [details |-> details] @@ ServedRequest(op, code, sessionId, body)
    /\ UNCHANGED <<sessions, now, pending>>

\* fault: finalData is stored before it is validated
SubmitApplicationRequest_StoresRejected(sessionId, body) ==
    IF sessionId \notin DOMAIN sessions
    THEN RejectedRequest("submitApplication", "SESSION_NOT_FOUND", sessionId, body)
    ELSE LET session == sessions[sessionId]
             finalData == Spread(session.merchantData, DataOf(body))
             validation == validateMerchantData(finalData)
         IN  IF ~validation.isValid
             THEN /\ sessions' = [sessions EXCEPT ![sessionId].merchantData = finalData]
                  /\ last' = [details |-> validation.issues]
                              @@ ServedRequest("submitApplication", "VALIDATION_FAILED",
                                               sessionId, body)
                  /\ UNCHANGED <<now, pending>>
             ELSE AnsweredRequest("submitApplication", sessionId,
                    [session EXCEPT
                       !.status = "completed",
                       !.merchantData = finalData,
                       !.submittedAt = <<now>>],
                    body)

SubmitApplicationRequest(sessionId, body) ==
    IF sessionId \notin DOMAIN sessions
    THEN RejectedRequest("submitApplication", "SESSION_NOT_FOUND", sessionId, body)
    ELSE LET session == sessions[sessionId]
             finalData == Spread(session.merchantData, DataOf(body))
             validation == validateMerchantData(finalData)
         IN  IF ~validation.isValid
             THEN RejectedWithDetails("submitApplication", "VALIDATION_FAILED",
                                      sessionId, body, validation.issues)
             ELSE AnsweredRequest("submitApplication", sessionId,
                    [session EXCEPT
                       !.status = "completed",
                       !.merchantData = finalData,
                       !.submittedAt = <<now>>],
                    body)

SubmitApplication(sessionId, data) == SubmitApplicationRequest(sessionId, [data |-> data])

\* the handler answered success and wrote nothing
Reported(op, sessionId) ==
    /\ last' = Served(op, "OK", sessionId)
    /\ UNCHANGED <<sessions, now, pending>>

\* verifyInfo.  ExternalAPIService has verifyBankAccount and neither verifyPAN
\* nor verifyGSTIN, so those two calls throw like the default case, and so
\* does reading a field of a missing data; the catch block answers.
VerifyInfo(sessionId, verificationType, hasData) ==
    IF sessionId \notin DOMAIN sessions
    THEN Rejected("verifyInfo", "SESSION_NOT_FOUND", sessionId)
    ELSE IF verificationType = "bank_account" /\ hasData
    THEN Reported("verifyInfo", sessionId)
    ELSE Rejected("verifyInfo", "VERIFICATION_FAILED", sessionId)

\* Math.round(numerator / denominator) for non-negative integers
Round(numerator, denominator) == (2 * numerator + denominator) \div (2 * denominator)

\* the progress report of getProgress
Progress(session) ==
    LET totalFields == 13
        completedFields ==
            Cardinality({key \in DOMAIN session.merchantData :
                            Truthy(session.merchantData[key])})
    IN  [currentStep |-> session.currentStep,
         overallProgress |-> Round(completedFields * 100, totalFields),
         fieldsCompleted |-> completedFields,
         fieldsTotal |-> totalFields,
         documentsUploaded |-> Len(session.documents),
         documentsRequired |-> 3]

\* getProgress reads the session and writes nothing
GetProgress(sessionId) ==
    IF sessionId \notin DOMAIN sessions
    THEN Rejected("getProgress", "SESSION_NOT_FOUND", sessionId)
    ELSE /\ last' = [progress |-> Progress(sessions[sessionId])]
                    @@ Served("getProgress", "OK", sessionId)
         /\ UNCHANGED <<sessions, now, pending>>

\* a call of the agent's calculateDropOffRisk; it reads no session
\* and reading the length of an absent hesitationPoints throws
CalculateDropOffRisk(behavior) ==
    /\ last' = IF "hesitationPoints" \in DOMAIN behavior
               THEN [risk |-> calculateDropOffRisk(behavior)]
                    @@ ServedRequest("calculateDropOffRisk", "OK", "", behavior)
               ELSE ServedRequest("calculateDropOffRisk", "TypeError", "", behavior)
    /\ UNCHANGED <<sessions, now, pending>>

\* validateField: the handler names no session; what the engine throws, the
\* catch block answers
ValidateField(field, value) ==
    LET body == [field |-> field, value |-> value]
        validation == validateField(field, value)
    IN  IF Threw(validation)
        THEN RejectedRequest("validateField", "VALIDATION_FAILED", "", body)
        ELSE /\ last' = [validation |-> validation]
                        @@ ServedRequest("validateField", "OK", "", body)
             /\ UNCHANGED <<sessions, now, pending>>

----------------------------------------------------------------------------
(* Requests: the bodies the clients send and what the services answer *)

\* the welcome answer: the name of the business
BusinessPatch == [businessName |-> ABC_TRADERS]

\* a business name with the owner and both tax ids left blank
BlankOwnerPatch ==
    [businessName |-> ABC_TRADERS, ownerName |-> <<>>, pan |-> <<>>, gstin |-> <<>>]

OwnerPatch == [ownerName |-> ASHA_RAO, pan |-> PAN_GOOD]

BankPatch == [accountNumber |-> ACCOUNT_NO, ifscCode |-> IFSC_GOOD]

FormPatch ==
    [email |-> EMAIL, phone |-> PHONE, address |-> ADDRESS, city |-> MUMBAI,
     state |-> MAHARASHTRA, pincode |-> PINCODE_KNOWN, category |-> RETAIL]

HolderPatch == [accountHolderName |-> ASHA_RAO]

\* business name, owner name and PAN
IdentityPatch == Spread(BusinessPatch, OwnerPatch)

\* the twelve fields of the form
FullPatch == Spread(Spread(IdentityPatch, BankPatch), FormPatch)

\* FullPatch with one field left blank
BlankField(field) == [FullPatch EXCEPT ![field] = <<>>]

\* FullPatch with one field missing
WithoutField(field) == [key \in (DOMAIN FullPatch) \ {field} |-> FullPatch[key]]

\* what extractEntities reads from a legible document of each type
BusinessProofData ==
    [business_name |-> ABC_ENTERPRISES, gstin |-> GSTIN_GOOD, trade_license |-> Null,
     address |-> DOC_ADDRESS, city |-> PUNE, state |-> MAHARASHTRA,
     pincode |-> PINCODE_OTHER, registration_date |-> GST_REG_DATE]

IdProofData ==
    [name |-> RAVI_NAIR, pan |-> PAN_OTHER, aadhaar |-> Null, father_name |-> Null,
     dob |-> GST_REG_DATE, address |-> DOC_ADDRESS]

\* an identity document on which a seventh entity was read
IdProofWithCity == Spread(IdProofData, [city |-> PUNE])

BankProofData ==
    [account_number |-> ACCOUNT_NO, ifsc |-> IFSC_GOOD, bank_name |-> SBI,
     branch |-> MAIN_BRANCH, account_holder |-> RAVI_NAIR, account_type |-> SAVINGS]

\* a bank document whose IFSC was misread
BankProofMisread == [BankProofData EXCEPT !.ifsc = IFSC_BAD]

Extracted(documentType) ==
    CASE documentType = "business_proof" -> BusinessProofData
      [] documentType = "id_proof" -> IdProofData
      [] documentType = "bank_proof" -> BankProofData
      [] OTHER -> EmptyObject

\* the three document types shouldMoveToNextStep requires
DocumentTypes == {"business_proof", "id_proof", "bank_proof"}

\* extractEntities returned data
Read(data) == [threw |-> FALSE, data |-> data]

\* the model call of extractEntities rejected
ReadFailed == [threw |-> TRUE, data |-> EmptyObject]

\* a conversational turn in which the three model calls succeed
Turn(extracted) == [failsAt |-> "never", reply |-> REPLY, extracted |-> extracted]

\* a turn in which one of the three model calls rejects
FailedTurn(call) == [failsAt |-> call, reply |-> REPLY, extracted |-> EmptyObject]

FailedTurns == {FailedTurn(call) : call \in {"intent", "reply", "extract"}}

RegistriesUp == [pincode |-> "found", ifsc |-> "found"]

----------------------------------------------------------------------------
(* Specifications *)

\* Life cycle of a session: every handler, with the requests of a merchant
\* who answers the questions of each step in turn
Next ==
    \/ StartSession
    \/ \E sessionId \in SessionIds : ResumeSession(sessionId)
    \/ \E sessionId \in SessionIds,
          llm \in {FailedTurn("reply"), Turn(EmptyObject), Turn(BusinessPatch),
                   Turn(IdentityPatch), Turn(FullPatch)} :
          SendMessage(sessionId, HELLO, llm)
    \/ \E sessionId \in SessionIds, documentType \in DocumentTypes :
          UploadDocument(sessionId, TRUE, documentType, Read(EmptyObject))
    \/ \E sessionId \in SessionIds : UpdateData(sessionId, BankPatch)
    \/ \E sessionId \in SessionIds : EnrichData(sessionId, EmptyObject, RegistriesUp)
    \/ \E sessionId \in SessionIds : SaveDraft(sessionId, EmptyObject)
    \/ \E sessionId \in SessionIds : SubmitApplication(sessionId, HolderPatch)

Spec == Init /\ [][Next]_vars

\* Conversation under a running clock: the chat and the direct edits of the
\* business details, with the proactive interventions
ChatPatches ==
    {EmptyObject, BusinessPatch, BlankOwnerPatch, [ownerName |-> ASHA_RAO],
     [pan |-> PAN_GOOD], [gstin |-> GSTIN_GOOD]}

NextChat ==
    \/ StartSession
    \/ Tick
    \/ \E sessionId \in SessionIds, llm \in FailedTurns \cup {Turn(p) : p \in ChatPatches} :
          SendMessage(sessionId, HELLO, llm)
    \/ \E sessionId \in SessionIds, data \in ChatPatches : UpdateData(sessionId, data)

SpecChat == Init /\ [][NextChat]_vars

\* Document collection: legible and illegible documents of the mandatory
\* types and of a type that is not mandatory, then the chat
UploadedTypes == DocumentTypes \cup {"address_proof"}

NextUpload ==
    \/ StartSession
    \/ \E sessionId \in SessionIds, llm \in {Turn(EmptyObject), Turn(IdentityPatch)} :
          SendMessage(sessionId, HELLO, llm)
    \/ \E sessionId \in SessionIds, documentType \in UploadedTypes :
          \E extraction \in {ReadFailed, Read(EmptyObject), Read(Extracted(documentType))} :
              UploadDocument(sessionId, TRUE, documentType, extraction)
    \/ \E sessionId \in SessionIds, documentType \in UploadedTypes :
          UploadDocument(sessionId, FALSE, documentType, ReadFailed)

SpecUpload == Init /\ [][NextUpload]_vars

\* The form: the merchant names the business and the owner, hands in three
\* documents and then gives the fields of the form, leaving some out or blank
FormFields == DOMAIN FullPatch

FormTurns ==
    {Turn(IdentityPatch), Turn(FullPatch)}
    \cup {Turn(BlankField(field)) : field \in FormFields}
    \cup {Turn(WithoutField(field)) : field \in FormFields}

NextForm ==
    \/ StartSession
    \/ \E sessionId \in SessionIds, llm \in FormTurns : SendMessage(sessionId, HELLO, llm)
    \/ \E sessionId \in SessionIds, documentType \in DocumentTypes :
          UploadDocument(sessionId, TRUE, documentType, Read(EmptyObject))

SpecForm == Init /\ [][NextForm]_vars

\* Documents against a record the merchant typed: edits and uploads
DocumentPatches == {BusinessPatch, OwnerPatch, BankPatch, [address |-> ADDRESS]}

Readings(documentType) ==
    {Read(EmptyObject), Read(Extracted(documentType))}
    \cup (IF documentType = "id_proof" THEN {Read(IdProofWithCity)} ELSE {})
    \cup (IF documentType = "bank_proof" THEN {Read(BankProofMisread)} ELSE {})

NextDocuments ==
    \/ StartSession
    \/ \E sessionId \in SessionIds, data \in DocumentPatches : UpdateData(sessionId, data)
    \/ \E sessionId \in SessionIds, documentType \in DocumentTypes :
          \E extraction \in Readings(documentType) :
              UploadDocument(sessionId, TRUE, documentType, extraction)

SpecDocuments == Init /\ [][NextDocuments]_vars

\* Edits over a populated record: the conversation, two legible documents
\* and the enrichment fill the record, and the merchant edits it
EditPatches ==
    {[businessName |-> XYZ_STORES], [businessName |-> <<>>], [address |-> ADDRESS],
     [city |-> MUMBAI, category |-> RETAIL], [bankName |-> HDFC_BANK, ifscCode |-> IFSC_GOOD]}

NextEdits ==
    \/ StartSession
    \/ \E sessionId \in SessionIds : SendMessage(sessionId, HELLO, Turn(IdentityPatch))
    \/ \E sessionId \in SessionIds, documentType \in {"business_proof", "bank_proof"} :
          UploadDocument(sessionId, TRUE, documentType, Read(Extracted(documentType)))
    \/ \E sessionId \in SessionIds : EnrichData(sessionId, EmptyObject, RegistriesUp)
    \/ \E sessionId \in SessionIds, data \in EditPatches : UpdateData(sessionId, data)

SpecEdits == Init /\ [][NextEdits]_vars

\* Requests that name a session the store holds and requests that name one
\* it does not hold: every handler that takes a session identifier
RequestIds == SessionIds \cup UnknownIds

SubmittedData == Spread(FullPatch, HolderPatch)

NextAddressed ==
    \/ StartSession
    \/ \E sessionId \in RequestIds : ResumeSession(sessionId)
    \/ \E sessionId \in RequestIds : SendMessage(sessionId, HELLO, Turn(BusinessPatch))
    \/ \E sessionId \in RequestIds :
          UploadDocument(sessionId, TRUE, "business_proof", Read(EmptyObject))
    \/ \E sessionId \in RequestIds : UpdateData(sessionId, BankPatch)
    \/ \E sessionId \in RequestIds : EnrichData(sessionId, EmptyObject, RegistriesUp)
    \/ \E sessionId \in RequestIds, verificationType \in {"pan", "bank_account"} :
          VerifyInfo(sessionId, verificationType, TRUE)
    \/ \E sessionId \in RequestIds : GetProgress(sessionId)
    \/ \E sessionId \in RequestIds : SaveDraft(sessionId, EmptyObject)
    \/ \E sessionId \in RequestIds : SubmitApplication(sessionId, SubmittedData)

SpecAddressed == Init /\ [][NextAddressed]_vars

\* Well-formed requests next to requests that lack an identifier or a part
\* of the body
RequestBodies == {EmptyObject, [data |-> BankPatch]}

NextMalformed ==
    \/ StartSession
    \/ \E sessionId \in SessionIds \cup {""}, message \in {HELLO, <<>>} :
          SendMessage(sessionId, message, Turn(BusinessPatch))
    \/ \E sessionId \in SessionIds, hasFile \in BOOLEAN,
          documentType \in {"business_proof", NoDocumentType} :
          UploadDocument(sessionId, hasFile, documentType, Read(BusinessProofData))
    \/ \E sessionId \in SessionIds, body \in RequestBodies :
          UpdateDataRequest(sessionId, body)
    \/ \E sessionId \in SessionIds, body \in RequestBodies :
          SaveDraftRequest(sessionId, body)

SpecMalformed == Init /\ [][NextMalformed]_vars

\* Enrichment with registries that answer, do not know the code, or fail
LookupPatches ==
    {[pincode |-> PINCODE_OTHER], [pincode |-> PINCODE_KNOWN], [city |-> PUNE],
     [ifscCode |-> IFSC_GOOD], [gstin |-> GSTIN_GOOD], [pan |-> PAN_GOOD]}

Registries ==
    {[pincode |-> p, ifsc |-> i] :
        p \in {"found", "not_found", "failed"}, i \in {"found", "failed"}}

NextEnrich ==
    \/ StartSession
    \/ \E sessionId \in SessionIds, data \in LookupPatches : UpdateData(sessionId, data)
    \/ \E sessionId \in SessionIds, registry \in Registries :
          EnrichData(sessionId, EmptyObject, registry)

SpecEnrich == Init /\ [][NextEnrich]_vars

\* Submissions over records that are complete, incomplete, or completed by
\* the submitted data
SubmitPatches == {IdentityPatch, BankPatch, FormPatch, HolderPatch, [email |-> <<>>]}

SubmittedPatches == {EmptyObject, HolderPatch, FormPatch, [category |-> <<>>]}

NextSubmit ==
    \/ StartSession
    \/ \E sessionId \in SessionIds, data \in SubmitPatches : UpdateData(sessionId, data)
    \/ \E sessionId \in SessionIds : SaveDraft(sessionId, EmptyObject)
    \/ \E sessionId \in SessionIds, data \in SubmittedPatches :
          SubmitApplication(sessionId, data)

SpecSubmit == Init /\ [][NextSubmit]_vars

\* Field validation over strings, numbers and missing values
\* "abcde1234f"
PAN_LOWER == <<"a", "b", "c", "d", "e", "1", "2", "3", "4", "f">>

\* "ABCDE1234": a PAN that lacks its last character
PAN_SHORT == SubSeq(PAN_GOOD, 1, 9)

\* "ABCDE1234FG"
PAN_LONG == PAN_GOOD \o <<"G">>

\* nine characters, the fourth a sharp s
PAN_SHARP == <<"A", "B", "C", SHARP_S, "1", "2", "3", "4", "F">>

\* "27AABCU9603R0ZM": GSTIN_GOOD with the digit 0 in the 13th position
GSTIN_ZERO == [GSTIN_GOOD EXCEPT ![13] = "0"]

\* "27AABCU9603RAZM": GSTIN_GOOD with a letter in the 13th position
GSTIN_LETTER == [GSTIN_GOOD EXCEPT ![13] = "A"]

\* "27AABCU9603R1YM": the 14th character is not Z
GSTIN_NO_Z == [GSTIN_GOOD EXCEPT ![14] = "Y"]

RequestFields == ValidatedFields \cup {"category"}

RawValues ==
    {Undefined, Null, <<>>, NumberValue(<<"0">>), NumberValue(PINCODE_KNOWN),
     ABC_TRADERS, EMAIL, PHONE, ACCOUNT_NO, PINCODE_KNOWN, IFSC_GOOD, IFSC_BAD,
     PAN_GOOD, PAN_LOWER, PAN_BAD, PAN_SHORT, PAN_LONG, PAN_SHARP,
     GSTIN_GOOD, GSTIN_BAD, GSTIN_ZERO, GSTIN_LETTER, GSTIN_NO_Z}

NextValidate ==
    \/ StartSession
    \/ \E field \in RequestFields, value \in RawValues : ValidateField(field, value)

SpecValidate == Init /\ [][NextValidate]_vars

\* Behaviour metrics on both sides of each threshold of the risk score
SecondsOnStep == {0, 180, 181}

SecondsInTotal == {0, 900, 901}

FieldCounts == {0, 1, 2, 4, 5, 13}

HesitationCounts == {0, 3, 4}

Behaviors ==
    {[timeOnCurrentStep |-> onStep, totalTimeSpent |-> total,
      fieldsCompleted |-> completed, fieldsTotal |-> fields,
      hesitationPoints |-> [i \in 1..hesitations |-> "pan"]] :
        onStep \in SecondsOnStep, total \in SecondsInTotal,
        completed \in FieldCounts, fields \in FieldCounts,
        hesitations \in HesitationCounts}

NextRisk ==
    \/ StartSession
    \/ \E behavior \in Behaviors : CalculateDropOffRisk(behavior)

SpecRisk == Init /\ [][NextRisk]_vars

\* The snapshot of the documented test 'should detect high drop-off risk',
\* as the test passes it and with the two counters it leaves out
TestSnapshot ==
    [timeOnCurrentStep |-> 200, fieldsCompleted |-> 2, fieldsTotal |-> 15,
     validationErrors |-> 4]

TestSnapshots ==
    {TestSnapshot}
    \cup {[totalTimeSpent |-> total, hesitationPoints |-> [i \in 1..hesitations |-> "pan"]]
          @@ TestSnapshot :
             total \in SecondsInTotal \cup {200}, hesitations \in HesitationCounts}

NextSnapshot ==
    \/ StartSession
    \/ \E behavior \in Behaviors \cup TestSnapshots : CalculateDropOffRisk(behavior)

SpecSnapshot == Init /\ [][NextSnapshot]_vars

\* Progress reports over records built by messages, uploads, patches and
\* enrichments
NextProgress ==
    \/ StartSession
    \/ \E sessionId \in SessionIds : SendMessage(sessionId, HELLO, Turn(IdentityPatch))
    \/ \E sessionId \in SessionIds, documentType \in DocumentTypes :
          UploadDocument(sessionId, TRUE, documentType, Read(Extracted(documentType)))
    \/ \E sessionId \in SessionIds : UpdateData(sessionId, FormPatch)
    \/ \E sessionId \in SessionIds : EnrichData(sessionId, EmptyObject, RegistriesUp)
    \/ \E sessionId \in SessionIds : GetProgress(sessionId)

SpecProgress == Init /\ [][NextProgress]_vars

\* sendMessage requests of one session that overlap
NextOverlap ==
    \/ StartSession
    \/ \E sessionId \in SessionIds : ReceiveMessage(sessionId, HELLO)
    \/ \E request \in pending, llm \in {FailedTurn("reply"), Turn(IdentityPatch)} :
          AnswerMessage(request, llm)

SpecOverlap == Init /\ [][NextOverlap]_vars

----------------------------------------------------------------------------
(* The gates of the step progression, as the design states them *)

\* welcome -> business_info: the business name is non-empty
WelcomeGate(record) == Truthy(Get(record, "businessName"))

\* business_info -> document_upload: business name, owner name and one of
\* the two tax ids are non-empty
BusinessGate(record) ==
    /\ Truthy(Get(record, "businessName"))
    /\ Truthy(Get(record, "ownerName"))
    /\ Truthy(Get(record, "gstin")) \/ Truthy(Get(record, "pan"))

\* document_upload -> form_completion: a document of each mandatory category
DocumentGate(documents) ==
    \A category \in {"business_proof", "id_proof", "bank_proof"} :
        \E i \in 1..Len(documents) : documents[i].documentType = category

\* form_completion -> verification: the twelve required fields are non-empty
TwelveFields ==
    {"businessName", "ownerName", "email", "phone", "pan", "address", "city",
     "state", "pincode", "accountNumber", "ifscCode", "category"}

FormGate(record) == \A field \in TwelveFields : Truthy(Get(record, field))

\* the steps whose gate is a predicate of the record and the document list
GatedSteps == {WELCOME, BUSINESS_INFO, DOCUMENT_UPLOAD, FORM_COMPLETION}

Gate(step, record, documents) ==
    CASE step = WELCOME -> WelcomeGate(record)
      [] step = BUSINESS_INFO -> BusinessGate(record)
      [] step = DOCUMENT_UPLOAD -> DocumentGate(documents)
      [] step = FORM_COMPLETION -> FormGate(record)
      [] step = VERIFICATION -> TRUE
      [] OTHER -> FALSE

\* the step after `step` in the order
Successor(step) ==
    IF step = SUBMITTED THEN SUBMITTED ELSE StepOrder[StepIndex(step) + 1]

\* the replies of checkProactiveIntervention
InterventionReplies == {OFFER_HELP, OFFER_EXPLAIN, OFFER_AUTOFILL}

\* this step of the run is a sendMessage on session id that the agent
\* answered conversationally (two entries joined the log, the second one not
\* an intervention)
Conversed(id) ==
    LET before == sessions[id].conversationHistory
        after == sessions'[id].conversationHistory
    IN  /\ Len(after) = Len(before) + 2
        /\ after[Len(after)].content \notin InterventionReplies

\* this step of the run is a request that `op` answered with success on session id
Succeeded(ops, id) ==
    /\ now' = now
    /\ last'.op \in ops
    /\ last'.code = "OK"
    /\ last'.sessionId = id

MutatingOps == {"sendMessage", "uploadDocument", "updateData", "enrichData", "saveDraft"}

----------------------------------------------------------------------------
(* Step progression over the life cycle of a session (Spec) *)

\* C1: whatever request is served, the current step of a session never moves
\* to an earlier position of the step order.
C1_StepNeverDecreases ==
    [][\A id \in DOMAIN sessions :
          /\ id \in DOMAIN sessions'
          /\ StepIndex(sessions'[id].currentStep) >= StepIndex(sessions[id].currentStep)
      ]_vars

\* a session that went through every step, served by a handler other than sendMessage
C1_Witness ==
    \E id \in DOMAIN sessions :
        /\ sessions[id].currentStep = SUBMITTED
        /\ Len(sessions[id].documents) = 3
        /\ last.op = "saveDraft"
        /\ last.step = SUBMITTED

\* C2: the current step changes from review to submitted only in a
\* submitApplication request; no sendMessage and no patch makes that move.
C2_SubmittedOnlyBySubmit ==
    [][\A id \in DOMAIN sessions :
          (sessions[id].currentStep = REVIEW /\ sessions'[id].currentStep = SUBMITTED)
              => last'.op = "submitApplication"
      ]_vars

\* C3: after every successful sendMessage, uploadDocument, updateData,
\* enrichData and saveDraft, if the record and the documents left behind
\* satisfy the gate of the step the session was at, the session is at the
\* next step when the request returns.
C3_GateEvaluatedAfterEveryMutation ==
    [][\A id \in DOMAIN sessions :
          (/\ Succeeded(MutatingOps, id)
           /\ sessions[id].currentStep \in GatedSteps \cup {VERIFICATION}
           /\ Gate(sessions[id].currentStep, sessions'[id].merchantData,
                   sessions'[id].documents))
              => sessions'[id].currentStep = Successor(sessions[id].currentStep)
      ]_vars

\* C7: while the record and documents left by a request do not satisfy the
\* gate of the current step, the step is unchanged, however many requests
\* store fields of later steps; the bank fields a patch stores are in the
\* record, and no field already stored leaves it.
C7_LaterFieldsStoredStepKept ==
    [][\A id \in DOMAIN sessions :
          LET before == sessions[id]
              after == sessions'[id]
          IN  /\ (/\ before.currentStep \in GatedSteps
                  /\ ~Gate(before.currentStep, after.merchantData, after.documents))
                     => after.currentStep = before.currentStep
              /\ Succeeded({"updateData"}, id)
                     => \A field \in DOMAIN BankPatch :
                            Get(after.merchantData, field) = BankPatch[field]
              /\ DOMAIN before.merchantData \subseteq DOMAIN after.merchantData
      ]_vars

\* bank fields stored twice over at welcome, before any business name
C7_Witness ==
    \E id \in DOMAIN sessions :
        /\ sessions[id].currentStep = WELCOME
        /\ last.op = "sendMessage" /\ last.code = "OK" /\ last.step = WELCOME
        /\ Len(sessions[id].conversationHistory) = 4
        /\ Get(sessions[id].merchantData, "accountNumber") = ACCOUNT_NO
        /\ Get(sessions[id].merchantData, "ifscCode") = IFSC_GOOD
        /\ ~WelcomeGate(sessions[id].merchantData)

\* C8: once the current step is submitted, no request changes it.
C8_SubmittedIsTerminal ==
    [][\A id \in DOMAIN sessions :
          sessions[id].currentStep = SUBMITTED => sessions'[id].currentStep = SUBMITTED
      ]_vars

\* a sendMessage answered on a session that was at submitted
C8_Witness ==
    \E id \in DOMAIN sessions :
        /\ sessions[id].currentStep = SUBMITTED
        /\ last.op = "sendMessage" /\ last.code = "OK" /\ last.step = SUBMITTED

----------------------------------------------------------------------------
(* The gates, step by step *)

\* C4: a session at business_info moves nowhere but to document_upload, moves
\* there only when business name, owner name and one of gstin and pan are
\* non-empty in the record merged with the patch, and does move there
\* whenever the agent evaluates the step (a sendMessage answered
\* conversationally) on such a record; with business name "ABC Traders" and
\* owner name, gstin and pan empty it stays at business_info.
C4_BusinessInfoGate ==
    [][\A id \in DOMAIN sessions :
          sessions[id].currentStep = BUSINESS_INFO =>
              LET after == sessions'[id]
              IN  /\ after.currentStep \in {BUSINESS_INFO, DOCUMENT_UPLOAD}
                  /\ after.currentStep = DOCUMENT_UPLOAD => BusinessGate(after.merchantData)
                  /\ (Conversed(id) /\ BusinessGate(after.merchantData))
                         => after.currentStep = DOCUMENT_UPLOAD
                  /\ (/\ Get(after.merchantData, "businessName") = ABC_TRADERS
                      /\ Get(after.merchantData, "ownerName") = <<>>
                      /\ Get(after.merchantData, "gstin") = <<>>
                      /\ Get(after.merchantData, "pan") = <<>>)
                         => after.currentStep = BUSINESS_INFO
      ]_vars

\* the agent evaluated the step on "ABC Traders" with blank owner and tax ids
C4_Witness ==
    \E id \in DOMAIN sessions :
        LET session == sessions[id]
            log == session.conversationHistory
        IN  /\ session.currentStep = BUSINESS_INFO
            /\ last.op = "sendMessage" /\ last.code = "OK" /\ last.step = BUSINESS_INFO
            /\ log[Len(log)].content = REPLY
            /\ session.merchantData = BlankOwnerPatch

C6_FormCompletionGate ==
    [][\A id \in DOMAIN sessions :
          sessions[id].currentStep = FORM_COMPLETION =>
              LET after == sessions'[id]
              IN  /\ after.currentStep \in {FORM_COMPLETION, VERIFICATION}
                  /\ after.currentStep = VERIFICATION => FormGate(after.merchantData)
                  /\ (Conversed(id) /\ FormGate(after.merchantData))
                         => after.currentStep = VERIFICATION
                  /\ (\E field \in TwelveFields : ~Truthy(Get(after.merchantData, field)))
                         => after.currentStep = FORM_COMPLETION
      ]_vars

\* the agent evaluated the step on a record with eleven of the twelve fields
C6_Witness ==
    \E id \in DOMAIN sessions :
        /\ sessions[id].currentStep = FORM_COMPLETION
        /\ last.op = "sendMessage" /\ last.code = "OK" /\ last.step = FORM_COMPLETION
        /\ Cardinality({field \in TwelveFields :
                           Truthy(Get(sessions[id].merchantData, field))}) = 11

----------------------------------------------------------------------------
(* Documents and the record (SpecDocuments) *)

\* this step of the run is an uploadDocument that stored a document on session id
Uploaded(id) == Len(sessions'[id].documents) = Len(sessions[id].documents) + 1

\* C9: every field of the record that is non-empty before an uploadDocument
\* holds the same value after it.
C9_UploadFirstWriteWins ==
    [][\A id \in DOMAIN sessions :
          Uploaded(id) =>
              \A field \in DOMAIN sessions[id].merchantData :
                  Truthy(sessions[id].merchantData[field])
                      => Get(sessions'[id].merchantData, field)
                             = sessions[id].merchantData[field]
      ]_vars

\* the document uploadDocument stored last on a session
LastDocument(session) == session.documents[Len(session.documents)]

\* C10: when the request served last stored a document and the next request
\* uploads a document of the same category with the same extracted fields,
\* the second upload leaves the record as the first one left it.
C10_SecondUploadKeepsRecord ==
    [][\A id \in DOMAIN sessions :
          (/\ last.op = "uploadDocument" /\ last.code = "OK" /\ last.sessionId = id
           /\ Uploaded(id)
           /\ LastDocument(sessions'[id]).documentType
                  = LastDocument(sessions[id]).documentType
           /\ LastDocument(sessions'[id]).extractedData
                  = LastDocument(sessions[id]).extractedData)
              => sessions'[id].merchantData = sessions[id].merchantData
      ]_vars

\* the same legible business proof twice on a fresh session: the record is
\* what one upload leaves
C10_Witness ==
    \E id \in DOMAIN sessions :
        LET session == sessions[id]
        IN  /\ last.op = "uploadDocument" /\ last.code = "OK"
            /\ Len(session.documents) = 2
            /\ session.documents[1] = session.documents[2]
            /\ session.documents[1].documentType = "business_proof"
            /\ session.documents[1].extractedData = BusinessProofData
            /\ Get(session.merchantData, "businessName") = ABC_ENTERPRISES
            /\ Get(session.merchantData, "city") = PUNE
            /\ "ownerName" \notin DOMAIN session.merchantData

----------------------------------------------------------------------------
(* Direct edits of the record (SpecEdits) *)

\* C11: after a successful updateData every field named in the patch holds
\* the patched value, whoever populated it before, every other field of the
\* record keeps its value, and the record has no further field.
C11_UpdateLastWriteWins ==
    [][\A id \in DOMAIN sessions :
          Succeeded({"updateData"}, id) =>
              LET patch == DataOf(last'.body)
                  before == sessions[id].merchantData
                  after == sessions'[id].merchantData
              IN  /\ DOMAIN after = DOMAIN before \cup DOMAIN patch
                  /\ \A field \in DOMAIN patch : after[field] = patch[field]
                  /\ \A field \in DOMAIN before \ DOMAIN patch :
                         after[field] = before[field]
      ]_vars

\* an edit replaced the business name that a document had filled in, and
\* left the address of that document alone
C11_Witness ==
    \E id \in DOMAIN sessions :
        LET session == sessions[id]
        IN  /\ last.op = "updateData" /\ last.code = "OK"
            /\ last.body = [data |-> [businessName |-> XYZ_STORES]]
            /\ Get(session.merchantData, "businessName") = XYZ_STORES
            /\ Get(session.merchantData, "business_name") = ABC_ENTERPRISES
            /\ Get(session.merchantData, "address") = DOC_ADDRESS
            /\ Len(session.documents) = 1
            /\ session.documents[1].documentType = "business_proof"
            /\ session.conversationHistory = <<>>

----------------------------------------------------------------------------
(* Error outcomes *)

\* the handlers that take a session identifier
AddressedOps ==
    {"resumeSession", "sendMessage", "uploadDocument", "updateData", "enrichData",
     "verifyInfo", "getProgress", "saveDraft", "submitApplication"}

Malformed(request) ==
    \/ /\ request.op = "sendMessage"
       /\ (request.sessionId = "" \/ request.body.message = <<>>)
    \/ /\ request.op = "uploadDocument"
       /\ (~request.body.file \/ request.body.documentType = NoDocumentType)
    \/ /\ request.op \in {"updateData", "saveDraft"}
       /\ "data" \notin DOMAIN request.body

\* C13: a malformed request (sendMessage without sessionId or message,
\* uploadDocument without file or without document category, updateData or
\* saveDraft without a data body) is rejected and leaves every session as it
\* was: record, document list, status and step.
C13_MalformedRejected ==
    [][(now' = now /\ Malformed(last'))
           => /\ last'.code # "OK"
              /\ sessions' = sessions
      ]_vars

\* the step is a sendMessage of session id during which an LLM call failed
LlmCallFailed(id) ==
    \E llm \in FailedTurns :
       /\ handleConversation(HELLO, MessageContext(sessions[id]), llm).threw
       /\ SendMessage(id, HELLO, llm)

\* C14: when an LLM call made while handling sendMessage fails, the caller
\* receives a normal reply (a generic apology) and not an error outcome,
\* and the session's current step and merchant record are what they were
\* before the request.
C14_LlmFailureAnsweredNormally ==
    [][\A id \in DOMAIN sessions :
          LlmCallFailed(id)
             => /\ last'.code = "OK"
                /\ sessions'[id].currentStep = sessions[id].currentStep
                /\ sessions'[id].merchantData = sessions[id].merchantData
      ]_vars

\* the step is an enrichData of session id whose only lookup is the postal
\* one, and the postal registry does not know the code or cannot be reached
PostalLookupEmpty(id) ==
    LET record == sessions[id].merchantData
    IN  /\ Truthy(Get(record, "pincode"))
        /\ \A field \in {"city", "gstin", "pan", "ifscCode"} : ~Truthy(Get(record, field))
        /\ \E registry \in Registries :
              /\ registry.pincode \in {"not_found", "failed"}
              /\ EnrichData(id, EmptyObject, registry)

\* C15: an enrichment lookup for a postal code the registry does not
\* recognise, or whose registry call fails, contributes an empty patch:
\* enrichData adds no city, state or country value to the record, and the
\* request still succeeds.
C15_FailedLookupAddsNothing ==
    [][\A id \in DOMAIN sessions :
          PostalLookupEmpty(id)
             => /\ last'.code = "OK"
                /\ \A field \in {"city", "state", "country"} :
                      Get(sessions'[id].merchantData, field)
                          = Get(sessions[id].merchantData, field)
      ]_vars

\* the fields an application must hold to be accepted
RequiredOnSubmit == TwelveFields \cup {"accountHolderName"}

Outstanding(record) == {field \in RequiredOnSubmit : ~Truthy(Get(record, field))}

\* C16: submitApplication marks a session completed only when the record
\* merged with the submitted data has no outstanding validation issue;
\* otherwise it rejects with the list of outstanding issues, one per missing
\* required field, and leaves the session's record, status and step exactly
\* as they were.
C16_SubmitAcceptsOnlyValid ==
    [][\A id \in DOMAIN sessions :
          (now' = now /\ last'.op = "submitApplication" /\ last'.sessionId = id)
             => LET merged == Spread(sessions[id].merchantData, DataOf(last'.body))
                IN  IF Outstanding(merged) = {}
                    THEN /\ last'.code = "OK"
                         /\ sessions'[id].status = "completed"
                         /\ sessions'[id].merchantData = merged
                    ELSE /\ last'.code = "VALIDATION_FAILED"
                         /\ Len(last'.details) = Cardinality(Outstanding(merged))
                         /\ {last'.details[i] : i \in 1..Len(last'.details)}
                                = Outstanding(merged)
                         /\ sessions'[id].merchantData = sessions[id].merchantData
                         /\ sessions'[id].status = sessions[id].status
                         /\ sessions'[id].currentStep = sessions[id].currentStep
      ]_vars

\* a paused draft that lacks the contact fields and the holder name was
\* submitted with the holder name only: seven issues, nothing stored
C16_Witness ==
    /\ last.op = "submitApplication"
    /\ last.code = "VALIDATION_FAILED"
    /\ last.body = [data |-> HolderPatch]
    /\ Len(last.details) = 7
    /\ \E id \in DOMAIN sessions :
          /\ sessions[id].status = "paused"
          /\ sessions[id].merchantData = Spread(IdentityPatch, BankPatch)

----------------------------------------------------------------------------
(* Field validators *)

\* C17: validateField is total: for every field identifier and every raw
\* value (a string, a number, a missing value) it returns an outcome and
\* never throws; an invalid or missing value yields isValid = false with a
\* message rather than an exception.
C17_ValidateFieldTotal ==
    last.op = "validateField"
       => /\ last.code = "OK"
          /\ "validation" \in DOMAIN last
          /\ ~last.validation.isValid
                => /\ "error" \in DOMAIN last.validation
                   /\ last.validation.error # ""

Letters == UpperLetters \cup LowerLetters

\* 5 letters, 4 digits, 1 letter
PanShape(text) ==
    /\ Len(text) = 10
    /\ \A i \in 1..5 : text[i] \in Letters
    /\ \A i \in 6..9 : text[i] \in Digits
    /\ text[10] \in Letters

\* the answer to a validateField request for `field` with a string value
ValidatedString(field) ==
    /\ last.op = "validateField"
    /\ last.body.field = field
    /\ IsString(last.body.value)

\* the outcome is isValid = false with a suggestion that is not empty
RejectedWithSuggestion ==
    /\ last.code = "OK"
    /\ ~last.validation.isValid
    /\ "suggestion" \in DOMAIN last.validation
    /\ last.validation.suggestion # ""

\* C18: the PAN validator returns isValid = true for every 10-character
\* string of 5 letters, 4 digits, 1 letter in either letter case, and
\* isValid = false with a non-empty suggestion for every string of any other
\* length, the empty string included, and for "ABCDE12345", whose suggestion
\* names the example ABCDE1234F.
C18_PanValidator ==
    ValidatedString("pan")
       => /\ PanShape(last.body.value)
             => (last.code = "OK" /\ last.validation.isValid)
          /\ Len(last.body.value) # 10 => RejectedWithSuggestion
          /\ last.body.value = PAN_BAD
             => /\ RejectedWithSuggestion
                /\ last.validation.suggestion
                      = "PAN should be 10 characters (e.g., ABCDE1234F)"

Alphanumerics == Digits \cup UpperLetters

\* 2 digits, 5 letters, 4 digits, 1 letter, 1 alphanumeric, Z, 1 alphanumeric
GstinShape(text) ==
    /\ Len(text) = 15
    /\ \A i \in {1, 2} \cup (8..11) : text[i] \in Digits
    /\ \A i \in (3..7) \cup {12} : text[i] \in UpperLetters
    /\ text[13] \in Alphanumerics
    /\ text[14] = "Z"
    /\ text[15] \in Alphanumerics

\* C19: the GSTIN validator accepts the empty value, and accepts a
\* non-empty value exactly when it has the 15-character shape; every
\* alphanumeric character, the digit 0 included, is accepted in the 13th
\* position.
C19_GstinValidator ==
    ValidatedString("gstin")
       => /\ last.code = "OK"
          /\ last.validation.isValid
                <=> (last.body.value = <<>> \/ GstinShape(last.body.value))

----------------------------------------------------------------------------
(* Drop-off risk *)

\* C20: calculateDropOffRisk returns a value within [0,1] for every
\* combination of non-negative counters (time on step, total time, fields
\* completed, fields total, number of hesitation points), fieldsTotal = 0
\* included.  The score is in thousandths.
C20_RiskWithinUnitInterval ==
    last.op = "calculateDropOffRisk"
       => /\ last.code = "OK"
          /\ 0 <= last.risk
          /\ last.risk <= 1000

\* no field to complete and none completed, every other term of the score
\* counted
C20_Witness ==
    /\ last.op = "calculateDropOffRisk"
    /\ last.body.fieldsTotal = 0
    /\ last.body.fieldsCompleted = 0
    /\ last.body.timeOnCurrentStep > 180
    /\ Len(last.body.hesitationPoints) > 3
    /\ last.risk = 700

\* the counters of a behaviour snapshot
Counters(behavior) ==
    [timeOnCurrentStep |-> behavior.timeOnCurrentStep,
     totalTimeSpent |-> behavior.totalTimeSpent,
     fieldsCompleted |-> behavior.fieldsCompleted,
     fieldsTotal |-> behavior.fieldsTotal,
     hesitationPoints |-> Len(behavior.hesitationPoints)]

\* `higher` is `behavior` with one counter raised and the others held fixed
RaisesOneCounter(behavior, higher) ==
    \E counter \in DOMAIN Counters(behavior) :
       /\ Counters(higher)[counter] > Counters(behavior)[counter]
       /\ \A other \in DOMAIN Counters(behavior) \ {counter} :
             Counters(higher)[other] = Counters(behavior)[other]

\* C21: calculateDropOffRisk is monotonic non-decreasing in each individual
\* counter: raising any one of time on current step, total time spent,
\* fields completed, fields total or number of hesitation points while
\* holding the others fixed never lowers the returned risk.
C21_RiskMonotonic ==
    last.op = "calculateDropOffRisk"
       => \A higher \in Behaviors :
             RaisesOneCounter(last.body, higher)
                => calculateDropOffRisk(higher) >= last.risk

----------------------------------------------------------------------------
(* Interventions *)

\* the intervention tier of a risk value, in thousandths
RiskTier(risk) == IF risk > 700 THEN "high" ELSE IF risk > 500 THEN "medium" ELSE "none"

\* the agent's reply that a successful sendMessage of session id appended
AppendedReply(id) ==
    sessions'[id].conversationHistory[Len(sessions'[id].conversationHistory)].content

\* C22: the intervention returned for a request is decided by the risk value
\* in two tiers: the high intervention payload when risk > 0.7, a medium
\* intervention payload when 0.5 < risk <= 0.7, and no intervention when
\* risk <= 0.5.
C22_InterventionByRiskTier ==
    [][\A id \in DOMAIN sessions :
          Succeeded({"sendMessage"}, id)
             => LET risk == MessageContext(sessions[id]).userBehavior.dropOffRisk
                IN  CASE RiskTier(risk) = "high" -> AppendedReply(id) = OFFER_HELP
                      [] RiskTier(risk) = "medium" ->
                            AppendedReply(id) \in InterventionReplies \ {OFFER_HELP}
                      [] OTHER -> AppendedReply(id) \notin InterventionReplies
      ]_vars

----------------------------------------------------------------------------
(* The documented high-risk snapshot *)

\* 200 s on the current step, 2 of 15 fields completed, more than three
\* validation errors
LongStepFewFields(behavior) ==
    /\ behavior.timeOnCurrentStep = 200
    /\ behavior.fieldsCompleted = 2
    /\ behavior.fieldsTotal = 15
    /\ Above(behavior, "validationErrors", 3)

\* C23: a behaviour snapshot with a long time on the current step (200 s),
\* under 20% of the fields completed (2 of 15) and more than three validation
\* errors is scored as high drop-off risk: calculateDropOffRisk returns a
\* value greater than 0.7 for it, without raising an error.
C23_TestSnapshotHighRisk ==
    (last.op = "calculateDropOffRisk" /\ LongStepFewFields(last.body))
       => /\ last.code = "OK"
          /\ last.risk > 700

----------------------------------------------------------------------------
(* Progress *)

\* C24: for every reachable session, getProgress reports overallProgress as
\* an integer within 0..100 and fieldsCompleted not greater than fieldsTotal
\* (13), whatever sequence of messages, uploads, patches and enrichments
\* built the record.
C24_ProgressWithinRange ==
    (last.op = "getProgress" /\ last.code = "OK")
       => /\ last.progress.overallProgress \in 0..100
          /\ last.progress.fieldsTotal = 13
          /\ last.progress.fieldsCompleted <= last.progress.fieldsTotal

----------------------------------------------------------------------------
(* Auto-fill threshold *)

\* C25: uploadDocument auto-fills the merchant record only from a document
\* whose confidence is greater than 0.85 and whose validation status is
\* valid; a document with confidence <= 0.85 or status invalid is appended to
\* the document list and leaves the merchant record unchanged.
C25_AutoFillOnlyWhenConfident ==
    [][\A id \in DOMAIN sessions :
          Succeeded({"uploadDocument"}, id)
             => LET document == LastDocument(sessions'[id])
                IN  /\ sessions'[id].documents
                          = Append(sessions[id].documents, document)
                    /\ (document.confidence <= 850 \/ document.validationStatus # "valid")
                          => sessions'[id].merchantData = sessions[id].merchantData
      ]_vars

----------------------------------------------------------------------------
(* Overlapping requests *)

\* C26: when two or more sendMessage requests for the same session overlap,
\* each reading the session's step before awaiting the LLM calls and writing
\* the step after them, the session's step pointer still never decreases in
\* the step order, under every interleaving of the requests.
C26_OverlapStepNeverDecreases ==
    [][\A request \in pending :
          request \notin pending'
             => StepIndex(sessions'[request.sessionId].currentStep)
                   >= StepIndex(sessions[request.sessionId].currentStep)
      ]_vars

\* C27: when handleConversation answers a message with a proactive
\* intervention, no field extraction and no step evaluation take place: the
\* sendMessage request appends the user message and the intervention reply
\* to the conversation log and leaves the session's current step and
\* merchant record unchanged, whether or not the current step's gate holds.
C27_InterventionChangesNothing ==
    [][\A id \in DOMAIN sessions :
          (Succeeded({"sendMessage"}, id) /\ AppendedReply(id) \in InterventionReplies)
             => /\ sessions'[id].conversationHistory
                      = sessions[id].conversationHistory
                        \o << [role |-> "user", content |-> last'.body.message],
                              [role |-> "agent", content |-> AppendedReply(id)] >>
                /\ sessions'[id].currentStep = sessions[id].currentStep
                /\ sessions'[id].merchantData = sessions[id].merchantData
      ]_vars

\* an intervention answered a session that was still at welcome although
\* its record held a business name
C27_Witness ==
    /\ last.op = "sendMessage"
    /\ last.code = "OK"
    /\ \E id \in DOMAIN sessions :
          LET log == sessions[id].conversationHistory
          IN  /\ last.sessionId = id
              /\ Len(log) = 2
              /\ log[2].content = OFFER_AUTOFILL
              /\ sessions[id].currentStep = WELCOME
              /\ WelcomeGate(sessions[id].merchantData)

----------------------------------------------------------------------------
(* The conversation log *)

\* the log is made of (user, agent) pairs
PairedLog(log) ==
    /\ Len(log) % 2 = 0
    /\ \A i \in 1..Len(log) : log[i].role = (IF i % 2 = 1 THEN "user" ELSE "agent")

\* `longer` is `log` with `count` entries appended
Extends(log, longer, count) ==
    /\ Len(longer) = Len(log) + count
    /\ SubSeq(longer, 1, Len(log)) = log

\* C28: a session's conversation log is append-only and made of adjacent
\* (user message, agent reply) pairs: a sendMessage that completes
\* successfully appends exactly one pair, so the length is twice the number
\* of such requests, the entries alternate user, agent from the first one,
\* and every other step, a failed or rejected sendMessage included, appends
\* nothing.
C28_LogAppendOnlyPairs ==
    [][\A id \in DOMAIN sessions :
          /\ PairedLog(sessions'[id].conversationHistory)
          /\ IF Succeeded({"sendMessage"}, id)
             THEN Extends(sessions[id].conversationHistory,
                          sessions'[id].conversationHistory, 2)
             ELSE sessions'[id].conversationHistory = sessions[id].conversationHistory
      ]_vars

\* two messages were answered, then a third one failed at the LLM
C28_Witness ==
    /\ last.op = "sendMessage"
    /\ last.code = "MESSAGE_FAILED"
    /\ \E id \in DOMAIN sessions :
          /\ last.sessionId = id
          /\ Len(sessions[id].conversationHistory) = 4
          /\ sessions[id].conversationHistory[3].role = "user"
          /\ sessions[id].conversationHistory[4].role = "agent"

----------------------------------------------------------------------------
(* Form gate and submission *)

\* C29: the form-completion gate and the final submission agree: every
\* merchant record that satisfies the form_completion gate, and so lets a
\* session reach verification and review, is accepted by submitApplication
\* when no further data is supplied.
C29_FormGateImpliesAccepted ==
    [][\A id \in DOMAIN sessions :
          (/\ now' = now
           /\ last'.op = "submitApplication"
           /\ last'.sessionId = id
           /\ DataOf(last'.body) = EmptyObject
           /\ FormGate(sessions[id].merchantData))
             => /\ last'.code = "OK"
                /\ sessions'[id].status = "completed"
      ]_vars

\* C30: once submitApplication has been accepted for a session, the
\* session's status stays completed under every later operation on that
\* session (sendMessage, uploadDocument, updateData, enrichData, saveDraft,
\* resumeSession, submitApplication).
C30_CompletedStaysCompleted ==
    [][\A id \in DOMAIN sessions :
          sessions[id].status = "completed" => sessions'[id].status = "completed"
      ]_vars

====
